---- MODULE Spec2Model ----
(***************************************************************************)
(* Batch router assignment (scripts/batch_routing_plan_v2.py) with the     *)
(* OSRM /table client (scripts/libs/osrm_tools.py) and the nearest-router  *)
(* selection (scripts/libs/routing_solver.py).                             *)
(*                                                                         *)
(* Coordinates are integers: one unit is 0.05 degree of longitude on the   *)
(* equator, every latitude is 0.  Road distances answered by the routing   *)
(* engine are whole kilometres, sent in metres.                            *)
(***************************************************************************)
EXTENDS Integers, Sequences, FiniteSets, TLC

VARIABLES
    target_stations_raw,        \* input: list of (Name, Lon, Lat)
    routers_list_full,          \* input: list of (Name, Lon, Lat, Type, Priority, Site ID)
    unique,                     \* args.unique
    engine,                     \* routing engine: "any" answer per call, or "consistent"
    road,                       \* consistent engine: (start, dest) -> metres answered so far
    pc,                         \* position in main / run_conflict_resolution_assignment
    unassigned_targets,
    final_results,              \* dict BS_Name -> result, as its items in insertion order
    assigned_router_keys,
    iteration,
    available_routers,
    i,                          \* number of targets the current for loop has processed
    potential_assignments_map,  \* dict Router_Key -> result, as its values in insertion order
    targets_processed_in_loop,
    round_results,              \* the `result` of every target evaluated in this round
    committed,                  \* every final_res the commit loop has stored so far
    all_results,                \* the returned / written list of records
    requests_sent,              \* number of HTTP requests sent to the routing engine
    osrm_response,              \* what the engine answered to the last target evaluated
    call,                       \* a library function called on its own: name and arguments
    ret,                        \* what that call returned
    call_pc,                    \* position in that call
    attempt,                    \* get_osrm_route, get_ors_route: the loop variable
    http_sent,                  \* number of HTTP requests that call has sent
    http_response,              \* what the engine answered to the last of them
    retry_delay,                \* get_ors_route: seconds to wait after the next 429
    slept                       \* the time.sleep calls of get_ors_route, in seconds

batch_vars == <<target_stations_raw, routers_list_full, unique, engine, road, pc,
                unassigned_targets, final_results, assigned_router_keys, iteration,
                available_routers, i, potential_assignments_map,
                targets_processed_in_loop, round_results, committed, all_results,
                requests_sent, osrm_response>>

call_vars == <<call, ret, call_pc, attempt, http_sent, http_response, retry_delay, slept>>

vars == <<batch_vars, call_vars>>

-----------------------------------------------------------------------------
(* Bounds of the model *)

MaxTargets == 2
MaxRouters == 2
MaxLon == 2
MaxDist == 3
MaxRetries == 2
MaxRoutes == 3
MaxPairRoutes == 2
MaxTokens == 3
MaxGeoms == 2
MaxRows == 2

\* no run counts this many rounds (IterationBound); the guard only keeps a loop
\* that would not end from counting without end
IterCap == MaxTargets + MaxRouters + 2

(* Program constants *)

ArgsRadius == 10000
DefaultMaxRetries == 5
MinLineCoords == 2
MetresPerKm == 1000
MetresPerStep == 5560
JsonNull == -1
NaNum == -2
Inf == 1000000

NA == "N/A"
NoneKey == "None"
None == [tag |-> "None"]
NoneNone == [tag |-> "NoneNone"]
TypeError == [tag |-> "TypeError"]
NoRequest == [kind |-> "none"]
Idle == [fn |-> "main"]

-----------------------------------------------------------------------------
(* Pure helpers *)

Abs(x) == IF x < 0 THEN 0 - x ELSE x

Min(a, b) == IF a <= b THEN a ELSE b

Range(s) == {s[k] : k \in DOMAIN s}

\* every ordering of a finite set, as a sequence without repetition
Orderings(S) ==
    {s \in [1..Cardinality(S) -> S] : \A a, b \in 1..Cardinality(S) : a # b => s[a] # s[b]}

\* haversine(lat1, lon1, lat2, lon2) in metres, for points on the equator
Haversine(lat1, lon1, lat2, lon2) == MetresPerStep * (Abs(lat2 - lat1) + Abs(lon2 - lon1))

\* as FilterRoutersByRadius, leaving out a router at exactly the radius
FilterRoutersByRadiusStrict(target_lat, target_lon, routers_list, radius_km) ==
    SelectSeq(routers_list,
              LAMBDA router_data :
                  Haversine(target_lat, target_lon, router_data[3], router_data[2]) < radius_km)

\* filter_routers_by_radius: radius_km is compared with haversine's metres
FilterRoutersByRadius(target_lat, target_lon, routers_list, radius_km) ==
    SelectSeq(routers_list,
              LAMBDA router_data :
                  Haversine(target_lat, target_lon, router_data[3], router_data[2]) <= radius_km)

-----------------------------------------------------------------------------
(* Inputs *)

TargetName(k) == "T" \o ToString(k)
RouterName(k) == IF k = 0 THEN "" ELSE "R" \o ToString(k)

\* names are used in order of first appearance (lists equal up to renaming are one list)
NamesInOrder(names, prefix) ==
    \A j \in DOMAIN names :
        LET seen == {names[m] : m \in 1..(j - 1)} \ {""}
        IN  names[j] \in seen \cup {"", prefix \o ToString(Cardinality(seen) + 1)}

TargetLists ==
    {l \in UNION {[1..n -> {<<TargetName(k), lon, 0>> : k \in 1..MaxTargets, lon \in 0..MaxLon}]
                     : n \in 1..MaxTargets} :
        NamesInOrder([j \in DOMAIN l |-> l[j][1]], "T")}

RouterLists ==
    {l \in UNION {[1..n -> {<<RouterName(k), lon, 0, "PE", 1, "S" \o ToString(s)>> :
                              k \in 0..MaxRouters, lon \in 0..MaxLon, s \in 1..MaxRouters}]
                     : n \in 1..MaxRouters} :
        /\ NamesInOrder([j \in DOMAIN l |-> l[j][1]], "R")
        /\ \A j \in DOMAIN l : l[j][6] = "S" \o ToString(j)}

-----------------------------------------------------------------------------
(* The routing engine (OSRM /table), an external service *)

Metres == {MetresPerKm * d : d \in 1..MaxDist}

\* what one GET /table request for n destinations can come back with: an exception
\* of requests (network error, HTTP error status), a body whose code is not "Ok",
\* or code "Ok" with a 1 x n row (null where no route exists) or with no row
AnyResponses(n) ==
    {[kind |-> "RequestException"], [kind |-> "json", code |-> "NoRoute", distances |-> <<>>]}
    \cup {[kind |-> "json", code |-> "Ok", distances |-> row] :
            row \in [1..n -> Metres \cup {JsonNull}] \cup {<<>>}}

\* the answers to one request and the engine's table after each: any answer, or
\* (consistent engine) code "Ok" with, for each coordinate pair, the distance the
\* engine answered for that pair before (a fresh pair gets any distance)
OsrmAnswers(start_coords, dest_coords_list) ==
    IF engine = "any"
    THEN {[response |-> r, road |-> road] : r \in AnyResponses(Len(dest_coords_list))}
    ELSE LET asked == {<<start_coords, dest_coords_list[k]>> : k \in DOMAIN dest_coords_list}
             fresh == asked \ DOMAIN road
         IN  {[response |-> [kind |-> "json", code |-> "Ok",
                             distances |-> [k \in DOMAIN dest_coords_list |->
                                             (road @@ ext)[<<start_coords, dest_coords_list[k]>>]]],
               road |-> road @@ ext] : ext \in [fresh -> Metres]}

-----------------------------------------------------------------------------
(* libs/osrm_tools.py and libs/routing_solver.py *)

\* get_route_distances_table, from the response on: None, the km list, or TypeError
\* raised by d / 1000 on a null entry (only RequestException is caught)
GetRouteDistancesTable(response) ==
    IF response.kind = "RequestException" THEN None
    ELSE IF response.code # "Ok" THEN None
    ELSE IF response.distances = <<>> THEN None
    ELSE IF \E k \in DOMAIN response.distances : response.distances[k] = JsonNull
         THEN TypeError
    ELSE [tag |-> "list",
          val |-> [k \in DOMAIN response.distances |-> response.distances[k] \div MetresPerKm]]

\* as NearestLoop, a later router taking the place of one at the same distance
RECURSIVE NearestLoopLastWins(_, _, _, _, _)
NearestLoopLastWins(distances_km_list, routers_list, k, min_distance, best_router_result) ==
    IF k > Len(distances_km_list) THEN best_router_result
    ELSE IF distances_km_list[k] <= min_distance
         THEN NearestLoopLastWins(distances_km_list, routers_list, k + 1, distances_km_list[k],
                                  [tag |-> "dict",
                                   name |-> routers_list[k][1],
                                   lat |-> routers_list[k][3],
                                   lon |-> routers_list[k][2],
                                   type |-> routers_list[k][4],
                                   priority |-> routers_list[k][5],
                                   site_id |-> routers_list[k][6],
                                   distance_km |-> distances_km_list[k]])
         ELSE NearestLoopLastWins(distances_km_list, routers_list, k + 1, min_distance,
                                  best_router_result)

\* the for loop of find_nearest_router_by_osrm_route_table from index k on
RECURSIVE NearestLoop(_, _, _, _, _)
NearestLoop(distances_km_list, routers_list, k, min_distance, best_router_result) ==
    IF k > Len(distances_km_list) THEN best_router_result
    ELSE IF distances_km_list[k] < min_distance
         THEN NearestLoop(distances_km_list, routers_list, k + 1, distances_km_list[k],
                          [tag |-> "dict",
                           name |-> routers_list[k][1],
                           lat |-> routers_list[k][3],
                           lon |-> routers_list[k][2],
                           type |-> routers_list[k][4],
                           priority |-> routers_list[k][5],
                           site_id |-> routers_list[k][6],
                           distance_km |-> distances_km_list[k]])
         ELSE NearestLoop(distances_km_list, routers_list, k + 1, min_distance,
                          best_router_result)

FindNearestRouterByOsrmRouteTable(response, routers_list) ==
    LET distances_km_list == GetRouteDistancesTable(response)
    IN  IF distances_km_list.tag = "None" THEN None
        ELSE IF distances_km_list.tag = "TypeError" THEN TypeError
        ELSE NearestLoop(distances_km_list.val, routers_list, 1, Inf, None)

-----------------------------------------------------------------------------
(* batch_routing_plan_v2.py: find_best_router_for_target *)

\* as NoRouterResult, with the status of the other failure record
NoRouterResultAsFailed(bs_name, bs_lat, bs_lon) ==
    [BS_Name |-> bs_name, BS_Lat |-> bs_lat, BS_Lon |-> bs_lon,
     Nearest_Router_Name |-> NA, Nearest_Router_Lat |-> NaNum, Nearest_Router_Lon |-> NaNum,
     Router_Type |-> NA, Router_Priority |-> NaNum, Router_Site_ID |-> NA,
     Route_Distance_KM |-> NaNum, Status |-> "OSRM Route Failed",
     Router_Key |-> NoneKey, Distance |-> Inf]

NoRouterResult(bs_name, bs_lat, bs_lon) ==
    [BS_Name |-> bs_name, BS_Lat |-> bs_lat, BS_Lon |-> bs_lon,
     Nearest_Router_Name |-> NA, Nearest_Router_Lat |-> NaNum, Nearest_Router_Lon |-> NaNum,
     Router_Type |-> NA, Router_Priority |-> NaNum, Router_Site_ID |-> NA,
     Route_Distance_KM |-> NaNum, Status |-> "No router in radius",
     Router_Key |-> NoneKey, Distance |-> Inf]

SuccessResult(bs_name, bs_lat, bs_lon, best_router_info) ==
    [BS_Name |-> bs_name, BS_Lat |-> bs_lat, BS_Lon |-> bs_lon,
     Nearest_Router_Name |-> best_router_info.name,
     Nearest_Router_Lat |-> best_router_info.lat,
     Nearest_Router_Lon |-> best_router_info.lon,
     Router_Type |-> best_router_info.type,
     Router_Priority |-> best_router_info.priority,
     Router_Site_ID |-> best_router_info.site_id,
     Route_Distance_KM |-> best_router_info.distance_km, Status |-> "Success",
     Router_Key |-> best_router_info.name, Distance |-> best_router_info.distance_km]

\* as FailedResult, reporting the failed call as an empty radius
FailedResultNoRouter(bs_name, bs_lat, bs_lon) == NoRouterResult(bs_name, bs_lat, bs_lon)

FailedResult(bs_name, bs_lat, bs_lon) ==
    [BS_Name |-> bs_name, BS_Lat |-> bs_lat, BS_Lon |-> bs_lon,
     Nearest_Router_Name |-> NA, Nearest_Router_Lat |-> NaNum, Nearest_Router_Lon |-> NaNum,
     Router_Type |-> NA, Router_Priority |-> NaNum, Router_Site_ID |-> NA,
     Route_Distance_KM |-> NaNum, Status |-> "OSRM Route Failed",
     Router_Key |-> NoneKey, Distance |-> Inf]

\* part C of find_best_router_for_target, given the routers left by the radius filter
\* (not empty) and the engine's response: the result, or the exception passed on
BestRouterResult(bs_name, bs_lat, bs_lon, filtered_routers_full, response) ==
    LET best_router_info == FindNearestRouterByOsrmRouteTable(response, filtered_routers_full)
    IN  IF best_router_info.tag = "TypeError" THEN [tag |-> "raise"]
        ELSE IF best_router_info.tag = "dict"
             THEN [tag |-> "return",
                   result |-> SuccessResult(bs_name, bs_lat, bs_lon, best_router_info)]
             ELSE [tag |-> "return", result |-> FailedResult(bs_name, bs_lat, bs_lon)]

\* the outcomes of find_best_router_for_target: the result or exception, the number
\* of requests it sent, the engine's response and its table afterwards
FindBestRouterForTarget(bs_name, bs_lat, bs_lon, routers_list_arg, radius) ==
    LET filtered_routers_full ==
            FilterRoutersByRadius(bs_lat, bs_lon, routers_list_arg, radius)
    IN  IF filtered_routers_full = <<>>
        THEN {[out |-> [tag |-> "return", result |-> NoRouterResult(bs_name, bs_lat, bs_lon)],
               requests |-> 0, response |-> NoRequest, road |-> road]}
        ELSE {[out |-> BestRouterResult(bs_name, bs_lat, bs_lon, filtered_routers_full,
                                        a.response),
               requests |-> 1, response |-> a.response, road |-> a.road] :
                a \in OsrmAnswers(<<bs_lon, bs_lat>>,
                                  [k \in DOMAIN filtered_routers_full |->
                                      <<filtered_routers_full[k][2], filtered_routers_full[k][3]>>])}

\* the 11 columns left once the temporary keys Router_Key and Distance are deleted
StripTemp(res) ==
    [BS_Name |-> res.BS_Name, BS_Lat |-> res.BS_Lat, BS_Lon |-> res.BS_Lon,
     Nearest_Router_Name |-> res.Nearest_Router_Name,
     Nearest_Router_Lat |-> res.Nearest_Router_Lat,
     Nearest_Router_Lon |-> res.Nearest_Router_Lon,
     Router_Type |-> res.Router_Type, Router_Priority |-> res.Router_Priority,
     Router_Site_ID |-> res.Router_Site_ID,
     Route_Distance_KM |-> res.Route_Distance_KM, Status |-> res.Status]

-----------------------------------------------------------------------------
(* batch_routing_plan_v2.py: run_conflict_resolution_assignment *)

\* Python truth value of a Router_Key: None and the empty string are false
Truthy(router_key) == router_key # NoneKey /\ router_key # ""

\* as AvailableRouters, forgetting to leave out the assigned routers
AvailableRoutersUnfiltered(routers_list, keys) == routers_list

\* step 1 of a round: the routers whose name is not yet assigned
AvailableRouters(routers_list, keys) ==
    SelectSeq(routers_list, LAMBDA r : r[1] \notin keys)

\* as Nominate, with the comparison turned round
NominateFarthest(map, result) ==
    IF result.Status = "Success" /\ Truthy(result.Router_Key)
    THEN IF \A k \in DOMAIN map : map[k].Router_Key # result.Router_Key
         THEN Append(map, result)
         ELSE [k \in DOMAIN map |->
                 IF map[k].Router_Key = result.Router_Key /\ result.Distance > map[k].Distance
                 THEN result ELSE map[k]]
    ELSE map

\* step 3 of a round, for one result: keep the closest target per Router_Key
Nominate(map, result) ==
    IF result.Status = "Success" /\ Truthy(result.Router_Key)
    THEN IF \A k \in DOMAIN map : map[k].Router_Key # result.Router_Key
         THEN Append(map, result)
         ELSE [k \in DOMAIN map |->
                 IF map[k].Router_Key = result.Router_Key /\ result.Distance < map[k].Distance
                 THEN result ELSE map[k]]
    ELSE map

\* as KeysAfterNomination, a nominated router counted as assigned at once
KeysAfterNominationAssigned(keys, result) ==
    IF result.Status = "Success" /\ Truthy(result.Router_Key)
    THEN keys \cup {result.Router_Key}
    ELSE keys

\* the for loop of a round writes potential_assignments_map and
\* targets_processed_in_loop only: a nomination leaves assigned_router_keys as it is
KeysAfterNomination(keys, result) == keys

\* final_results[bs_name] = final_res on a dict kept as its values in insertion order
PutResult(results, final_res) ==
    IF \E k \in DOMAIN results : results[k].BS_Name = final_res.BS_Name
    THEN [k \in DOMAIN results |->
            IF results[k].BS_Name = final_res.BS_Name THEN final_res ELSE results[k]]
    ELSE Append(results, final_res)

\* step 4 of a round: the commit loop over potential_assignments_map.items() from k on
RECURSIVE CommitLoop(_, _, _)
CommitLoop(results, map, k) ==
    IF k > Len(map) THEN results
    ELSE CommitLoop(PutResult(results, map[k]), map, k + 1)

NewlyAssignedKeys(map) == {map[k].BS_Name : k \in DOMAIN map}

\* as CommittedRouterKeys, without the add
CommittedRouterKeysForgotten(keys, map) == keys

\* as CommittedRouterKeys, rebinding the set to this round's keys
CommittedRouterKeysReset(keys, map) == {map[k].Router_Key : k \in DOMAIN map}

CommittedRouterKeys(keys, map) == keys \cup {map[k].Router_Key : k \in DOMAIN map}

\* as NextUnassigned, carrying every processed target over
NextUnassignedAll(processed, newly_assigned_keys) == processed

\* step 5 of a round: the processed targets whose name was not assigned in this round
NextUnassigned(processed, newly_assigned_keys) ==
    {target \in processed : target[1] \notin newly_assigned_keys}

\* as NoProgress, with the stop left out
NoProgressNever(newly_assigned_keys, unassigned) == FALSE

\* the safety stop of a round
NoProgress(newly_assigned_keys, unassigned) ==
    newly_assigned_keys = {} /\ unassigned # <<>>

NotAssignedResult(target) ==
    [BS_Name |-> target[1], BS_Lat |-> target[3], BS_Lon |-> target[2],
     Nearest_Router_Name |-> NA, Nearest_Router_Lat |-> NaNum, Nearest_Router_Lon |-> NaNum,
     Router_Type |-> NA, Router_Priority |-> NaNum, Router_Site_ID |-> NA,
     Route_Distance_KM |-> NaNum, Status |-> "Not Assigned after Loop"]

\* step 7: the committed records, then one record per target still unassigned
AllFinalResults(results, unassigned) ==
    [k \in DOMAIN results |-> StripTemp(results[k])]
    \o [k \in DOMAIN unassigned |-> NotAssignedResult(unassigned[k])]

-----------------------------------------------------------------------------
(* State machine *)

InitFrom(e, target_lists, modes) ==
    /\ target_stations_raw \in target_lists
    /\ routers_list_full \in RouterLists
    /\ unique \in modes
    /\ engine = e
    /\ road = <<>>
    /\ pc = IF unique THEN "while" ELSE "simple"
    /\ unassigned_targets = IF unique THEN target_stations_raw ELSE <<>>
    /\ final_results = <<>>
    /\ assigned_router_keys = {}
    /\ iteration = 0
    /\ available_routers = <<>>
    /\ i = 0
    /\ potential_assignments_map = <<>>
    /\ targets_processed_in_loop = {}
    /\ round_results = <<>>
    /\ committed = {}
    /\ all_results = <<>>
    /\ requests_sent = 0
    /\ osrm_response = NoRequest
    /\ call = Idle
    /\ ret = None
    /\ call_pc = "idle"
    /\ attempt = 0
    /\ http_sent = 0
    /\ http_response = NoRequest
    /\ retry_delay = 0
    /\ slept = <<>>

InitWith(e) == InitFrom(e, TargetLists, BOOLEAN)

Init == InitWith("any")

\* the while test, and a round up to the for loop: count the round, list the
\* available routers, break when there is none
RoundStart ==
    /\ pc = "while"
    /\ IF unassigned_targets = <<>>
       THEN /\ pc' = "aggregate"
            /\ UNCHANGED <<iteration, available_routers, i, potential_assignments_map,
                           targets_processed_in_loop, round_results>>
       ELSE /\ iteration < IterCap
            /\ iteration' = iteration + 1
            /\ available_routers' = AvailableRouters(routers_list_full, assigned_router_keys)
            /\ pc' = IF available_routers' = <<>> THEN "aggregate" ELSE "for"
            /\ i' = 0
            /\ potential_assignments_map' = <<>>
            /\ targets_processed_in_loop' = {}
            /\ round_results' = <<>>
    /\ UNCHANGED <<target_stations_raw, routers_list_full, unique, engine, road,
                   unassigned_targets, final_results, assigned_router_keys, committed,
                   all_results, requests_sent, osrm_response>>
    /\ UNCHANGED call_vars

\* one pass of the for loop over unassigned_targets
EvalTarget ==
    /\ pc = "for"
    /\ LET target == unassigned_targets[i + 1]
       IN  \E f \in FindBestRouterForTarget(target[1], target[3], target[2],
                                            available_routers, ArgsRadius) :
              /\ requests_sent' = requests_sent + f.requests
              /\ osrm_response' = f.response
              /\ road' = f.road
              /\ IF f.out.tag = "raise"
                 THEN /\ pc' = "crashed"
                      /\ UNCHANGED <<i, potential_assignments_map, assigned_router_keys,
                                     targets_processed_in_loop, round_results>>
                 ELSE /\ targets_processed_in_loop' = targets_processed_in_loop \cup {target}
                      /\ potential_assignments_map' =
                             Nominate(potential_assignments_map, f.out.result)
                      /\ assigned_router_keys' =
                             KeysAfterNomination(assigned_router_keys, f.out.result)
                      /\ round_results' = Append(round_results, f.out.result)
                      /\ i' = i + 1
                      /\ pc' = IF i' = Len(unassigned_targets) THEN "commit" ELSE "for"
    /\ UNCHANGED <<target_stations_raw, routers_list_full, unique, engine,
                   unassigned_targets, final_results, iteration,
                   available_routers, committed, all_results>>
    /\ UNCHANGED call_vars

\* steps 4 and 5 of a round and the safety stop; the next list is built by iterating
\* over a set of tuples, whose order is not fixed
Commit ==
    /\ pc = "commit"
    /\ final_results' = CommitLoop(final_results, potential_assignments_map, 1)
    /\ assigned_router_keys' =
           CommittedRouterKeys(assigned_router_keys, potential_assignments_map)
    /\ committed' = committed \cup Range(potential_assignments_map)
    /\ LET newly_assigned_keys == NewlyAssignedKeys(potential_assignments_map)
       IN  IF NoProgress(newly_assigned_keys, unassigned_targets)
           THEN /\ pc' = "aggregate"
                /\ UNCHANGED unassigned_targets
           ELSE /\ pc' = "while"
                /\ unassigned_targets' \in
                       Orderings(NextUnassigned(targets_processed_in_loop, newly_assigned_keys))
    /\ UNCHANGED <<target_stations_raw, routers_list_full, unique, engine, road, iteration,
                   available_routers, i, potential_assignments_map,
                   targets_processed_in_loop, round_results, all_results, requests_sent,
                   osrm_response>>
    /\ UNCHANGED call_vars

\* step 7 and the return
Aggregate ==
    /\ pc = "aggregate"
    /\ all_results' = AllFinalResults(final_results, unassigned_targets)
    /\ final_results' = [k \in DOMAIN final_results |-> StripTemp(final_results[k])]
    /\ pc' = "done"
    /\ UNCHANGED <<target_stations_raw, routers_list_full, unique, engine, road,
                   unassigned_targets, assigned_router_keys, iteration, available_routers,
                   i, potential_assignments_map, targets_processed_in_loop, round_results,
                   committed, requests_sent, osrm_response>>
    /\ UNCHANGED call_vars

\* main, not unique: one pass of the loop over target_stations_raw
SimpleEval ==
    /\ pc = "simple"
    /\ LET target == target_stations_raw[i + 1]
       IN  \E f \in FindBestRouterForTarget(target[1], target[3], target[2],
                                            routers_list_full, ArgsRadius) :
              /\ requests_sent' = requests_sent + f.requests
              /\ osrm_response' = f.response
              /\ road' = f.road
              /\ IF f.out.tag = "raise"
                 THEN /\ pc' = "crashed"
                      /\ UNCHANGED <<i, all_results>>
                 ELSE /\ all_results' = Append(all_results, StripTemp(f.out.result))
                      /\ i' = i + 1
                      /\ pc' = IF i' = Len(target_stations_raw) THEN "done" ELSE "simple"
    /\ UNCHANGED <<target_stations_raw, routers_list_full, unique, engine,
                   unassigned_targets, final_results, assigned_router_keys, iteration,
                   available_routers, potential_assignments_map,
                   targets_processed_in_loop, round_results, committed>>
    /\ UNCHANGED call_vars

Next == RoundStart \/ EvalTarget \/ Commit \/ Aggregate \/ SimpleEval

Spec == Init /\ [][Next]_vars

\* the same program against an engine that answers one distance per coordinate pair
InitRoad == InitWith("consistent")

SpecRoad == InitRoad /\ [][Next]_vars

\* the unique-assignment mode on its own, on n targets of different names, against
\* the same engine: a round can leave more than one target for the next
TargetListsOfLen(n) ==
    {[k \in 1..n |-> <<TargetName(k), lon[k], 0>>] : lon \in [1..n -> 0..MaxLon]}

InitOrder == InitFrom("consistent", TargetListsOfLen(MaxTargets + 1), {TRUE})

NextUnique == RoundStart \/ EvalTarget \/ Commit \/ Aggregate

SpecOrder == InitOrder /\ [][NextUnique]_vars

-----------------------------------------------------------------------------
(* libs/osrm_tools.py called on its own: get_osrm_route (route_kml_gen_final.py
   holds the same function), get_route_distance, get_route_distances_table *)

CallCoords == {<<lon, 0>> : lon \in 0..MaxLon}

ClientCalls ==
    {[fn |-> "get_osrm_route", start_coords |-> s, end_coords |-> e, max_retries |-> m] :
        s \in CallCoords, e \in CallCoords, m \in (0..MaxRetries) \cup {DefaultMaxRetries}}
    \cup {[fn |-> "get_route_distance", start_coords |-> s, end_coords |-> e] :
            s \in CallCoords, e \in CallCoords}
    \cup {[fn |-> "get_route_distances_table", start_coords |-> s, dest_coords_list |-> d] :
            s \in CallCoords, d \in UNION {[1..n -> CallCoords] : n \in 1..MaxRouters}}

\* what one GET /route request can come back with: an exception of requests
\* (network error, HTTP error status), a body whose code is not "Ok", or code "Ok"
\* with no route or with one route (its distance in metres or missing, its
\* geometry or none)
RouteResponses(start_coords, end_coords) ==
    {[kind |-> "RequestException"],
     [kind |-> "json", code |-> "NoRoute", routes |-> <<>>],
     [kind |-> "json", code |-> "Ok", routes |-> <<>>]}
    \cup {[kind |-> "json", code |-> "Ok",
            routes |-> <<[distance |-> d, coordinates |-> c]>>] :
            d \in Metres \cup {0, JsonNull}, c \in {<<>>, <<start_coords, end_coords>>}}

\* as GetOsrmRouteAttempt, taking a code that is not "Ok" for a transient failure
GetOsrmRouteAttemptRetryNotOk(response) ==
    IF response.kind = "RequestException" \/ response.code # "Ok" THEN [tag |-> "retry"]
    ELSE IF response.routes = <<>> THEN [tag |-> "return", val |-> NoneNone]
    ELSE IF response.routes[1].distance = JsonNull THEN [tag |-> "return", val |-> NoneNone]
    ELSE IF response.routes[1].coordinates = <<>> THEN [tag |-> "return", val |-> NoneNone]
    ELSE [tag |-> "return",
          val |-> [tag |-> "route", coords |-> response.routes[1].coordinates,
                   distance_km |-> response.routes[1].distance \div MetresPerKm]]

\* the try of get_osrm_route for one response: return, or go round the loop again
GetOsrmRouteAttempt(response) ==
    IF response.kind = "RequestException" THEN [tag |-> "retry"]
    ELSE IF response.code # "Ok" THEN [tag |-> "return", val |-> NoneNone]
    ELSE IF response.routes = <<>> THEN [tag |-> "return", val |-> NoneNone]
    ELSE IF response.routes[1].distance = JsonNull THEN [tag |-> "return", val |-> NoneNone]
    ELSE IF response.routes[1].coordinates = <<>> THEN [tag |-> "return", val |-> NoneNone]
    ELSE [tag |-> "return",
          val |-> [tag |-> "route", coords |-> response.routes[1].coordinates,
                   distance_km |-> response.routes[1].distance \div MetresPerKm]]

\* as InRange, going round once more
InRangeInclusive(attempt_arg, max_retries) == attempt_arg <= max_retries

\* for attempt in range(max_retries): there is a next value
InRange(attempt_arg, max_retries) == attempt_arg < max_retries

\* get_route_distance, from the response on
GetRouteDistance(response) ==
    IF response.kind = "RequestException" THEN None
    ELSE IF response.code # "Ok" \/ response.routes = <<>> THEN None
    ELSE IF response.routes[1].distance # JsonNull
         THEN [tag |-> "float", val |-> response.routes[1].distance \div MetresPerKm]
    ELSE None

\* no batch is run: the variables of main at rest
BatchIdle ==
    /\ target_stations_raw = <<>>
    /\ routers_list_full = <<>>
    /\ unique = FALSE
    /\ engine = "any"
    /\ road = <<>>
    /\ pc = "idle"
    /\ unassigned_targets = <<>>
    /\ final_results = <<>>
    /\ assigned_router_keys = {}
    /\ iteration = 0
    /\ available_routers = <<>>
    /\ i = 0
    /\ potential_assignments_map = <<>>
    /\ targets_processed_in_loop = {}
    /\ round_results = <<>>
    /\ committed = {}
    /\ all_results = <<>>
    /\ requests_sent = 0
    /\ osrm_response = NoRequest

InitClient ==
    /\ BatchIdle
    /\ call \in ClientCalls
    /\ ret = None
    /\ call_pc = "call"
    /\ attempt = 0
    /\ http_sent = 0
    /\ http_response = NoRequest
    /\ retry_delay = 0
    /\ slept = <<>>

\* get_osrm_route up to the loop: identical coordinates return at once
CallGetOsrmRoute ==
    /\ call_pc = "call" /\ call.fn = "get_osrm_route"
    /\ IF call.start_coords = call.end_coords
       THEN ret' = NoneNone /\ call_pc' = "returned"
       ELSE ret' = ret /\ call_pc' = "loop"
    /\ attempt' = 0
    /\ UNCHANGED <<call, http_sent, http_response>>
    /\ UNCHANGED <<retry_delay, slept>>
    /\ UNCHANGED batch_vars

\* one pass of the loop of get_osrm_route, or its end
AttemptGetOsrmRoute ==
    /\ call_pc = "loop"
    /\ IF InRange(attempt, call.max_retries)
       THEN \E response \in RouteResponses(call.start_coords, call.end_coords) :
               LET did == GetOsrmRouteAttempt(response)
               IN  /\ http_sent' = http_sent + 1
                   /\ http_response' = response
                   /\ IF did.tag = "retry"
                      THEN attempt' = attempt + 1 /\ UNCHANGED <<ret, call_pc>>
                      ELSE ret' = did.val /\ call_pc' = "returned" /\ UNCHANGED attempt
       ELSE /\ ret' = NoneNone
            /\ call_pc' = "returned"
            /\ UNCHANGED <<attempt, http_sent, http_response>>
    /\ UNCHANGED call
    /\ UNCHANGED <<retry_delay, slept>>
    /\ UNCHANGED batch_vars

CallGetRouteDistance ==
    /\ call_pc = "call" /\ call.fn = "get_route_distance"
    /\ \E response \in RouteResponses(call.start_coords, call.end_coords) :
          /\ http_sent' = http_sent + 1
          /\ http_response' = response
          /\ ret' = GetRouteDistance(response)
    /\ call_pc' = "returned"
    /\ UNCHANGED <<call, attempt>>
    /\ UNCHANGED <<retry_delay, slept>>
    /\ UNCHANGED batch_vars

CallGetRouteDistancesTable ==
    /\ call_pc = "call" /\ call.fn = "get_route_distances_table"
    /\ \E response \in AnyResponses(Len(call.dest_coords_list)) :
          /\ http_sent' = http_sent + 1
          /\ http_response' = response
          /\ ret' = GetRouteDistancesTable(response)
          /\ call_pc' = IF ret' = TypeError THEN "raised" ELSE "returned"
    /\ UNCHANGED <<call, attempt>>
    /\ UNCHANGED <<retry_delay, slept>>
    /\ UNCHANGED batch_vars

NextClient ==
    CallGetOsrmRoute \/ AttemptGetOsrmRoute \/ CallGetRouteDistance
    \/ CallGetRouteDistancesTable

SpecClient == InitClient /\ [][NextClient]_vars

-----------------------------------------------------------------------------
(* Functions called on their own: filter_routers_by_radius (batch_routing_plan_v2.py
   and batch_routing_plan.py) and find_nearest_routes (libs/geospatial_tools.py, and
   the older geospatial_tools.py, which has no validity test) *)

\* a radius of nothing, the default read as kilometres, one step, and the default
Radii == {0, ArgsRadius \div MetresPerKm, MetresPerStep, ArgsRadius}

\* a route as extract_routes_from_kml returns it: (full name, coordinates), the
\* name a path (the first placemark at the top of the document, the others in a
\* folder), the coordinates (lon, lat) and not empty
RoutePath(k) == IF k = 1 THEN <<"P1">> ELSE <<"Tuyen", "P" \o ToString(k)>>

RouteCoords == UNION {[1..n -> CallCoords] : n \in 1..MinLineCoords}

RouteLists(n) == {[k \in 1..n |-> <<RoutePath(k), c[k]>>] : c \in [1..n -> RouteCoords]}

\* the calls of filter_routers_by_radius with one radius
FilterCalls(r) ==
    {[fn |-> "filter_routers_by_radius", target_lat |-> 0, target_lon |-> lon,
      routers_list |-> l, radius_km |-> r] :
        lon \in 0..MaxLon, l \in RouterLists \cup {<<>>}}

\* the calls of find_nearest_routes of one file on a document of n routes
RoutesCalls(f, n) ==
    {[fn |-> "find_nearest_routes", file |-> f, routes |-> l,
      target_lat |-> 0, target_lon |-> lon] :
        l \in RouteLists(n), lon \in 0..MaxLon}

\* a route whose points all coincide: the LineString is not valid
Degenerate(coords) == \A a, b \in DOMAIN coords : coords[a] = coords[b]

\* the point of the polyline nearest to (lon, lat), all on the equator:
\* line.interpolate(line.project(p))
NearestOnLine(lon, coords) ==
    LET lons == {coords[k][1] : k \in DOMAIN coords}
        lo == CHOOSE x \in lons : \A y \in lons : x <= y
        hi == CHOOSE x \in lons : \A y \in lons : x >= y
    IN  IF lon < lo THEN lo ELSE IF lon > hi THEN hi ELSE lon

\* compute_nearest_point: the outcomes.  libs/geospatial_tools.py answers infinity
\* for fewer than 2 points, for a line that is not valid, and for any exception;
\* geospatial_tools.py projects whatever the line is, and on a line of no length
\* answers the distance to its point or raises
ComputeNearestPoint(file, lat, lon, coords) ==
    LET near == NearestOnLine(lon, coords)
        found == [tag |-> "Ok", dist |-> Haversine(lat, lon, 0, near),
                  nearest_lat |-> 0, nearest_lon |-> near]
    IN  IF file = "libs/geospatial_tools.py"
        THEN IF Len(coords) < MinLineCoords \/ Degenerate(coords)
             THEN {[tag |-> "Ok", dist |-> Inf, nearest_lat |-> 0, nearest_lon |-> 0]}
             ELSE {found}
        ELSE IF Degenerate(coords) THEN {found, [tag |-> "raise"]} ELSE {found}

\* as InsertByDistance, before the records at the same distance
InsertByDistanceBeforeEqual(sorted, x) ==
    LET n == Cardinality({j \in DOMAIN sorted : sorted[j].distance_m < x.distance_m})
    IN  SubSeq(sorted, 1, n) \o <<x>> \o SubSeq(sorted, n + 1, Len(sorted))

\* list.sort is stable: a record goes behind the records at a distance less than or
\* equal to its own
InsertByDistance(sorted, x) ==
    LET n == Cardinality({j \in DOMAIN sorted : sorted[j].distance_m <= x.distance_m})
    IN  SubSeq(sorted, 1, n) \o <<x>> \o SubSeq(sorted, n + 1, Len(sorted))

\* results.sort(key=lambda x: x["distance_m"]), from the k-th record on
RECURSIVE SortByDistance(_, _, _)
SortByDistance(results, k, sorted) ==
    IF k > Len(results) THEN sorted
    ELSE SortByDistance(results, k + 1, InsertByDistance(sorted, results[k]))

\* parts[-2].strip() if len(parts) >= 2 else route_name
ShortRouteName(route_name) ==
    IF Len(route_name) >= 2 THEN <<route_name[Len(route_name) - 1]>> ELSE route_name

\* the for loop of find_nearest_routes from the k-th route on, and the sort: the
\* outcomes
RECURSIVE FindNearestRoutesLoop(_, _, _, _, _, _)
FindNearestRoutesLoop(file, routes, target_lat, target_lon, k, results) ==
    IF k > Len(routes) THEN {[tag |-> "list", val |-> SortByDistance(results, 1, <<>>)]}
    ELSE IF Len(routes[k][2]) < MinLineCoords
         THEN FindNearestRoutesLoop(file, routes, target_lat, target_lon, k + 1, results)
    ELSE UNION {
           IF o.tag = "raise" THEN {[tag |-> "raise"]}
           ELSE IF file = "libs/geospatial_tools.py" /\ o.dist = Inf
                THEN FindNearestRoutesLoop(file, routes, target_lat, target_lon, k + 1,
                                           results)
           ELSE FindNearestRoutesLoop(file, routes, target_lat, target_lon, k + 1,
                    Append(results, [full_name |-> routes[k][1],
                                     short_name |-> ShortRouteName(routes[k][1]),
                                     distance_m |-> o.dist,
                                     nearest_lat |-> o.nearest_lat,
                                     nearest_lon |-> o.nearest_lon])) :
           o \in ComputeNearestPoint(file, target_lat, target_lon, routes[k][2])}

FindNearestRoutes(file, routes, target_lat, target_lon) ==
    IF routes = <<>> THEN {[tag |-> "list", val |-> <<>>]}
    ELSE FindNearestRoutesLoop(file, routes, target_lat, target_lon, 1, <<>>)

InitCall(calls) ==
    /\ BatchIdle
    /\ call \in calls
    /\ ret = None
    /\ call_pc = "call"
    /\ attempt = 0
    /\ http_sent = 0
    /\ http_response = NoRequest
    /\ retry_delay = 0
    /\ slept = <<>>

CallFilterRoutersByRadius ==
    /\ call_pc = "call" /\ call.fn = "filter_routers_by_radius"
    /\ ret' = [tag |-> "list",
               val |-> FilterRoutersByRadius(call.target_lat, call.target_lon,
                                             call.routers_list, call.radius_km)]
    /\ call_pc' = "returned"
    /\ UNCHANGED <<call, attempt, http_sent, http_response>>
    /\ UNCHANGED <<retry_delay, slept>>
    /\ UNCHANGED batch_vars

CallFindNearestRoutes ==
    /\ call_pc = "call" /\ call.fn = "find_nearest_routes"
    /\ \E o \in FindNearestRoutes(call.file, call.routes, call.target_lat, call.target_lon) :
          /\ ret' = o
          /\ call_pc' = IF o.tag = "raise" THEN "raised" ELSE "returned"
    /\ UNCHANGED <<call, attempt, http_sent, http_response>>
    /\ UNCHANGED <<retry_delay, slept>>
    /\ UNCHANGED batch_vars

InitFilter == \E r \in Radii : InitCall(FilterCalls(r))

SpecFilter == InitFilter /\ [][CallFilterRoutersByRadius]_vars

InitRoutes ==
    \E f \in {"libs/geospatial_tools.py", "geospatial_tools.py"}, n \in 0..MaxRoutes :
        InitCall(RoutesCalls(f, n))

SpecRoutes == InitRoutes /\ [][CallFindNearestRoutes]_vars

-----------------------------------------------------------------------------
(* two_point_to_route_nearest_v5_sameroute_kml_color.py (and v3): the nearest
   vertex of a route and find_best_route_for_pair *)

\* coordinate lists as the routes of a KML hold them, the empty one included
PairCoords == UNION {[1..n -> CallCoords] : n \in 0..MinLineCoords}

\* the calls of find_best_route_for_pair on a document of n routes
PairCalls(n) ==
    {[fn |-> "find_best_route_for_pair", lat1 |-> 0, lon1 |-> a, lat2 |-> 0, lon2 |-> b,
      routes |-> [k \in 1..n |-> <<RoutePath(k), c[k]>>]] :
        a \in 0..MaxLon, b \in 0..MaxLon, c \in [1..n -> PairCoords]}

\* the for loop of compute_nearest_point (nearest vertex) from the k-th vertex on
RECURSIVE NearestVertexLoop(_, _, _, _, _, _, _)
NearestVertexLoop(lat, lon, coords, k, min_distance, nearest_lon, nearest_lat) ==
    IF k > Len(coords) THEN [dist |-> min_distance, nearest_lon |-> nearest_lon,
                             nearest_lat |-> nearest_lat]
    ELSE LET lon_route == coords[k][1]
             lat_route == coords[k][2]
             distance == Haversine(lat, lon, lat_route, lon_route)
         IN  IF distance < min_distance
             THEN NearestVertexLoop(lat, lon, coords, k + 1, distance, lon_route, lat_route)
             ELSE NearestVertexLoop(lat, lon, coords, k + 1, min_distance, nearest_lon,
                                    nearest_lat)

\* compute_nearest_point of the two-point scripts: the vertex nearest to (lat, lon);
\* infinity and the point itself when there is no vertex
ComputeNearestVertex(lat, lon, coords) ==
    IF coords = <<>> THEN [dist |-> Inf, nearest_lon |-> lon, nearest_lat |-> lat]
    ELSE NearestVertexLoop(lat, lon, coords, 1, Inf, lon, lat)

\* parts[-2].strip() if len(parts) >= 2 and parts[-2].strip() else parts[-1].strip()
PairShortName(route_name) ==
    IF Len(route_name) >= 2 THEN route_name[Len(route_name) - 1]
    ELSE route_name[Len(route_name)]

\* as FindBestRouteForPairLoop, a later route taking the place of one at the same total
RECURSIVE FindBestRouteForPairLoopLastWins(_, _, _, _, _, _, _, _)
FindBestRouteForPairLoopLastWins(lat1, lon1, lat2, lon2, routes, k, min_total_distance, best_route_match) ==
    IF k > Len(routes) THEN best_route_match
    ELSE IF routes[k][2] = <<>>
         THEN FindBestRouteForPairLoopLastWins(lat1, lon1, lat2, lon2, routes, k + 1,
                                               min_total_distance, best_route_match)
    ELSE LET p1 == ComputeNearestVertex(lat1, lon1, routes[k][2])
             p2 == ComputeNearestVertex(lat2, lon2, routes[k][2])
             current_total_distance == p1.dist + p2.dist
         IN  IF current_total_distance <= min_total_distance
             THEN FindBestRouteForPairLoopLastWins(lat1, lon1, lat2, lon2, routes, k + 1,
                      current_total_distance,
                      [tag |-> "dict", short_name |-> PairShortName(routes[k][1]),
                       full_name |-> routes[k][1],
                       total_distance |-> current_total_distance,
                       dist1 |-> p1.dist, nearest_lat1 |-> p1.nearest_lat,
                       nearest_lon1 |-> p1.nearest_lon,
                       dist2 |-> p2.dist, nearest_lat2 |-> p2.nearest_lat,
                       nearest_lon2 |-> p2.nearest_lon])
             ELSE FindBestRouteForPairLoopLastWins(lat1, lon1, lat2, lon2, routes, k + 1,
                                                   min_total_distance, best_route_match)

\* the for loop of find_best_route_for_pair from the k-th route on
RECURSIVE FindBestRouteForPairLoop(_, _, _, _, _, _, _, _)
FindBestRouteForPairLoop(lat1, lon1, lat2, lon2, routes, k, min_total_distance, best_route_match) ==
    IF k > Len(routes) THEN best_route_match
    ELSE IF routes[k][2] = <<>>
         THEN FindBestRouteForPairLoop(lat1, lon1, lat2, lon2, routes, k + 1,
                                       min_total_distance, best_route_match)
    ELSE LET p1 == ComputeNearestVertex(lat1, lon1, routes[k][2])
             p2 == ComputeNearestVertex(lat2, lon2, routes[k][2])
             current_total_distance == p1.dist + p2.dist
         IN  IF current_total_distance < min_total_distance
             THEN FindBestRouteForPairLoop(lat1, lon1, lat2, lon2, routes, k + 1,
                      current_total_distance,
                      [tag |-> "dict", short_name |-> PairShortName(routes[k][1]),
                       full_name |-> routes[k][1],
                       total_distance |-> current_total_distance,
                       dist1 |-> p1.dist, nearest_lat1 |-> p1.nearest_lat,
                       nearest_lon1 |-> p1.nearest_lon,
                       dist2 |-> p2.dist, nearest_lat2 |-> p2.nearest_lat,
                       nearest_lon2 |-> p2.nearest_lon])
             ELSE FindBestRouteForPairLoop(lat1, lon1, lat2, lon2, routes, k + 1,
                                           min_total_distance, best_route_match)

FindBestRouteForPair(lat1, lon1, lat2, lon2, routes) ==
    FindBestRouteForPairLoop(lat1, lon1, lat2, lon2, routes, 1, Inf, None)

CallFindBestRouteForPair ==
    /\ call_pc = "call" /\ call.fn = "find_best_route_for_pair"
    /\ ret' = FindBestRouteForPair(call.lat1, call.lon1, call.lat2, call.lon2, call.routes)
    /\ call_pc' = "returned"
    /\ UNCHANGED <<call, attempt, http_sent, http_response>>
    /\ UNCHANGED <<retry_delay, slept>>
    /\ UNCHANGED batch_vars

InitPair == \E n \in 0..MaxPairRoutes : InitCall(PairCalls(n))

SpecPair == InitPair /\ [][CallFindBestRouteForPair]_vars

\* compute_nearest_point called on its own: the projection of libs/geospatial_tools.py
\* and the nearest vertex of the two-point scripts, on lists of up to 3 coordinates
NearestCalls ==
    {[fn |-> "compute_nearest_point", file |-> f, lat |-> 0, lon |-> lon, coords |-> c] :
        f \in {"libs/geospatial_tools.py",
               "two_point_to_route_nearest_v5_sameroute_kml_color.py"},
        lon \in 0..MaxLon,
        c \in UNION {[1..n -> CallCoords] : n \in 0..MinLineCoords + 1}}

CallComputeNearestPoint ==
    /\ call_pc = "call" /\ call.fn = "compute_nearest_point"
    /\ IF call.file = "libs/geospatial_tools.py"
       THEN ret' \in ComputeNearestPoint(call.file, call.lat, call.lon, call.coords)
       ELSE ret' = [tag |-> "Ok"] @@ ComputeNearestVertex(call.lat, call.lon, call.coords)
    /\ call_pc' = "returned"
    /\ UNCHANGED <<call, attempt, http_sent, http_response>>
    /\ UNCHANGED <<retry_delay, slept>>
    /\ UNCHANGED batch_vars

SpecNearest == InitCall(NearestCalls) /\ [][CallComputeNearestPoint]_vars

-----------------------------------------------------------------------------
(* KML extraction: parse_coords_text, _scan_kml_node and extract_routes_from_kml of
   libs/geospatial_tools.py, and the extract_routes_from_kml of the older
   geospatial_tools.py (point_to_route_nearest.py holds the same function).

   A coordinate string is the sequence of its whitespace-separated tokens, a token
   the sequence of its comma-separated fields.  An element's name is <<>> when it has
   no name child and <<text>> otherwise; a path is the sequence of its segments,
   joined by "/" in the program. *)

Libs == "libs/geospatial_tools.py"
Older == "geospatial_tools.py"

\* float(field): the fields the model uses that are numbers, and their values
FloatOf(field) ==
    CASE field = "0" -> 0 [] field = "1" -> 1 [] field = "2" -> 2 [] field = "5" -> 5

IsFloat(field) == field \in {"0", "1", "2", "5"}

\* the for loop of parse_coords_text from the k-th token on: libs tests len(parts)
\* and catches ValueError; the older function does neither
RECURSIVE ParseCoordsLoop(_, _, _, _)
ParseCoordsLoop(file, tokens, k, coords_list) ==
    IF k > Len(tokens) THEN [tag |-> "list", val |-> coords_list]
    ELSE LET parts == tokens[k]
         IN  IF file = Libs
             THEN IF Len(parts) >= 2 /\ IsFloat(parts[1]) /\ IsFloat(parts[2])
                  THEN ParseCoordsLoop(file, tokens, k + 1,
                           Append(coords_list, <<FloatOf(parts[1]), FloatOf(parts[2])>>))
                  ELSE ParseCoordsLoop(file, tokens, k + 1, coords_list)
             ELSE IF ~IsFloat(parts[1]) THEN [tag |-> "raise", exc |-> "ValueError"]
             ELSE IF Len(parts) < 2 THEN [tag |-> "raise", exc |-> "IndexError"]
             ELSE IF ~IsFloat(parts[2]) THEN [tag |-> "raise", exc |-> "ValueError"]
             ELSE ParseCoordsLoop(file, tokens, k + 1,
                      Append(coords_list, <<FloatOf(parts[1]), FloatOf(parts[2])>>))

\* parse_coords_text: the list of (lon, lat), or the exception raised
ParseCoordsText(file, coords_text) ==
    IF coords_text = <<>> THEN [tag |-> "list", val |-> <<>>]
    ELSE ParseCoordsLoop(file, coords_text, 1, <<>>)

\* the tokens of the model: lon,lat at three places, lon,lat,alt, one field only,
\* and a field that is no number in the first or the second place
Tokens ==
    {<<"0", "0">>, <<"1", "0">>, <<"2", "0">>, <<"1", "0", "5">>,
     <<"1">>, <<"x", "0">>, <<"1", "y">>}

CoordTexts(n) == [1..n -> Tokens]

ParseCalls(n) ==
    {[fn |-> "parse_coords_text", file |-> f, coords_text |-> t] :
        f \in {Libs, Older}, t \in CoordTexts(n)}

CallParseCoordsText ==
    /\ call_pc = "call" /\ call.fn = "parse_coords_text"
    /\ ret' = ParseCoordsText(call.file, call.coords_text)
    /\ call_pc' = IF ret'.tag = "raise" THEN "raised" ELSE "returned"
    /\ UNCHANGED <<call, attempt, http_sent, http_response>>
    /\ UNCHANGED <<retry_delay, slept>>
    /\ UNCHANGED batch_vars

InitParse == \E n \in 0..MaxTokens : InitCall(ParseCalls(n))

SpecParse == InitParse /\ [][CallParseCoordsText]_vars

\* a container's segment of the path: its name, "Unnamed" when it has none
ContainerName(node) == IF node.name = <<>> THEN "Unnamed" ELSE node.name[1]

PlacemarkName(node) == IF node.name = <<>> THEN "NoName" ELSE node.name[1]

\* as NewPath, a Document adding nothing to the path
NewPathOfFolders(node, current_path) ==
    IF node.tag = "Document" THEN current_path
    ELSE Append(current_path, ContainerName(node))

\* new_path = f"{current_path}/{fname}" if current_path else fname
NewPath(node, current_path) == Append(current_path, ContainerName(node))

\* extract_linestring_coords: no coordinates child gives []
ExtractLinestringCoords(file, geom_node) ==
    IF geom_node.coordinates = <<>> THEN [tag |-> "list", val |-> <<>>]
    ELSE ParseCoordsText(file, geom_node.coordinates[1])

\* as MultiGeometryLoop, a LineString put in front of the coordinates collected so far
RECURSIVE MultiGeometryLoopPrepend(_, _, _, _)
MultiGeometryLoopPrepend(file, geoms, k, all_coords) ==
    IF k > Len(geoms) THEN [tag |-> "list", val |-> all_coords]
    ELSE IF geoms[k].tag = "LineString"
         THEN LET c == ExtractLinestringCoords(file, geoms[k])
              IN  IF c.tag = "raise" THEN c
                  ELSE MultiGeometryLoopPrepend(file, geoms, k + 1, c.val \o all_coords)
    ELSE MultiGeometryLoopPrepend(file, geoms, k + 1, all_coords)

\* the loop over node.MultiGeometry.getchildren() from the k-th child on
RECURSIVE MultiGeometryLoop(_, _, _, _)
MultiGeometryLoop(file, geoms, k, all_coords) ==
    IF k > Len(geoms) THEN [tag |-> "list", val |-> all_coords]
    ELSE IF geoms[k].tag = "LineString"
         THEN LET c == ExtractLinestringCoords(file, geoms[k])
              IN  IF c.tag = "raise" THEN c
                  ELSE MultiGeometryLoop(file, geoms, k + 1, all_coords \o c.val)
    ELSE MultiGeometryLoop(file, geoms, k + 1, all_coords)

\* all_coords of a Placemark: its LineString, or the LineStrings of its MultiGeometry
PlacemarkCoords(file, node) ==
    IF node.geometry.tag = "LineString" THEN ExtractLinestringCoords(file, node.geometry)
    ELSE IF node.geometry.tag = "MultiGeometry"
         THEN MultiGeometryLoop(file, node.geometry.children, 1, <<>>)
    ELSE [tag |-> "list", val |-> <<>>]

\* _scan_kml_node (scan_node in the older file), and its loop over
\* node.getchildren() from the k-th child on: the routes list afterwards, or the
\* exception of parse_coords_text passed on
RECURSIVE ScanKmlNode(_, _, _, _)
RECURSIVE ScanChildren(_, _, _, _, _)
ScanKmlNode(file, node, current_path, routes) ==
    IF node.tag \in {"Folder", "Document"}
    THEN ScanChildren(file, node.children, 1, NewPath(node, current_path), routes)
    ELSE IF node.tag = "Placemark"
         THEN LET full_name == Append(current_path, PlacemarkName(node))
                  all_coords == PlacemarkCoords(file, node)
              IN  IF all_coords.tag = "raise" THEN all_coords
                  ELSE IF all_coords.val # <<>>
                       THEN [tag |-> "list",
                             val |-> Append(routes, <<full_name, all_coords.val>>)]
                  ELSE [tag |-> "list", val |-> routes]
    ELSE [tag |-> "list", val |-> routes]

ScanChildren(file, children, k, current_path, routes) ==
    IF k > Len(children) THEN [tag |-> "list", val |-> routes]
    ELSE LET scanned == ScanKmlNode(file, children[k], current_path, routes)
         IN  IF scanned.tag = "raise" THEN scanned
             ELSE ScanChildren(file, children, k + 1, current_path, scanned.val)

\* as ExtractRoutesFromKml, without the try around open and parse
ExtractRoutesFromKmlNoTry(file, kml) ==
    IF kml.tag \in {"unreadable", "unparsable"} THEN [tag |-> "raise", exc |-> kml.tag]
    ELSE ScanChildren(file, kml.children, 1, <<>>, <<>>)

\* extract_routes_from_kml on a file that cannot be opened, cannot be parsed, or
\* holds the tree kml
ExtractRoutesFromKml(file, kml) ==
    IF kml.tag \in {"unreadable", "unparsable"} THEN [tag |-> "list", val |-> <<>>]
    ELSE ScanChildren(file, kml.children, 1, <<>>, <<>>)

\* find_nearest_routes(kml_path, target_lat, target_lon): the outcomes
FindNearestRoutesOfKml(file, kml, target_lat, target_lon) ==
    LET routes == ExtractRoutesFromKml(file, kml)
    IN  IF routes.tag = "raise" THEN {routes}
        ELSE FindNearestRoutes(file, routes.val, target_lat, target_lon)

(* KML documents *)

LineStringOf(text) == [tag |-> "LineString", coordinates |-> <<text>>]

TwoPoints == <<<<"0", "0">>, <<"1", "0">>>>
TwoOtherPoints == <<<<"2", "0">>, <<"1", "0">>>>
ThreePoints == <<<<"1", "0", "5">>, <<"2", "0">>, <<"0", "0">>>>
OneTokenMalformed == <<<<"0", "0">>, <<"x", "0">>, <<"2", "0">>>>

\* a LineString with coordinates (none, two, three, one of three malformed) or
\* without a coordinates child
LineStrings ==
    {LineStringOf(t) : t \in {<<>>, TwoPoints, TwoOtherPoints, ThreePoints, OneTokenMalformed}}
    \cup {[tag |-> "LineString", coordinates |-> <<>>]}

\* the geometry of a Placemark: a LineString, a Point, or a MultiGeometry of up to
\* MaxGeoms LineStrings and Points
Geometries ==
    LineStrings \cup {[tag |-> "Point"]}
    \cup {[tag |-> "MultiGeometry", children |-> g] :
            g \in UNION {[1..n -> {LineStringOf(TwoPoints), LineStringOf(TwoOtherPoints),
                                  LineStringOf(<<>>), [tag |-> "Point"]}] :
                         n \in 0..MaxGeoms}}

Placemark(name, geometry) == [tag |-> "Placemark", name |-> name, geometry |-> geometry]
Folder(name, children) == [tag |-> "Folder", name |-> name, children |-> children]
Document(name, children) == [tag |-> "Document", name |-> name, children |-> children]
Kml(children) == [tag |-> "kml", children |-> children]

\* the files: one that cannot be opened, one that is no XML, and KML trees of four
\* shapes: a placemark in a folder of the Document, placemarks before, in and after
\* a folder, folders in a folder, and a folder with no Document above it
KmlFiles(shape) ==
    CASE shape = "failed" -> {[tag |-> "unreadable"], [tag |-> "unparsable"]}
      [] shape = "folder" ->
            {Kml(<<Document(dn, <<Folder(<<"A">>, <<Placemark(pn, g)>>)>>)>>) :
                dn \in {<<>>, <<"Doc">>}, pn \in {<<>>, <<"B">>}, g \in Geometries}
      [] shape = "order" ->
            {Kml(<<Document(dn, <<Placemark(<<"P1">>, g1),
                                  Folder(<<"A">>, <<Placemark(<<"B">>, g2)>>),
                                  Placemark(<<"P3">>, g3)>>)>>) :
                dn \in {<<>>, <<"Doc">>}, g1 \in LineStrings, g2 \in Geometries,
                g3 \in LineStrings}
      [] shape = "nested" ->
            {Kml(<<Document(<<"Doc">>,
                            <<Folder(fa, <<Folder(<<"C">>, <<Placemark(<<"B">>, g1)>>),
                                           Placemark(<<"P2">>, g2)>>)>>)>>) :
                fa \in {<<>>, <<"A">>}, g1 \in Geometries, g2 \in LineStrings}
      [] shape = "bare" ->
            {Kml(<<Folder(<<"A">>, <<Placemark(<<"B">>, g)>>)>>) : g \in Geometries}

KmlCalls(shape) ==
    {[fn |-> "extract_routes_from_kml", file |-> f, kml |-> d] :
        f \in {Libs, Older}, d \in KmlFiles(shape)}
    \cup {[fn |-> "find_nearest_routes", file |-> f, kml |-> d,
           target_lat |-> 0, target_lon |-> lon] :
            f \in {Libs, Older}, d \in KmlFiles(shape), lon \in 0..MaxLon}

CallExtractRoutesFromKml ==
    /\ call_pc = "call" /\ call.fn = "extract_routes_from_kml"
    /\ ret' = ExtractRoutesFromKml(call.file, call.kml)
    /\ call_pc' = IF ret'.tag = "raise" THEN "raised" ELSE "returned"
    /\ UNCHANGED <<call, attempt, http_sent, http_response>>
    /\ UNCHANGED <<retry_delay, slept>>
    /\ UNCHANGED batch_vars

CallFindNearestRoutesOfKml ==
    /\ call_pc = "call" /\ call.fn = "find_nearest_routes" /\ "kml" \in DOMAIN call
    /\ \E o \in FindNearestRoutesOfKml(call.file, call.kml, call.target_lat,
                                       call.target_lon) :
          /\ ret' = o
          /\ call_pc' = IF o.tag = "raise" THEN "raised" ELSE "returned"
    /\ UNCHANGED <<call, attempt, http_sent, http_response>>
    /\ UNCHANGED <<retry_delay, slept>>
    /\ UNCHANGED batch_vars

InitKml ==
    \E shape \in {"failed", "folder", "order", "nested", "bare"} : InitCall(KmlCalls(shape))

NextKml == CallExtractRoutesFromKml \/ CallFindNearestRoutesOfKml

SpecKml == InitKml /\ [][NextKml]_vars

-----------------------------------------------------------------------------
(* batch_routing_plan_v2.py: load_routers_from_csv and load_targets_from_csv.
   A CSV file is its header and its rows as csv.DictReader reads them, a row the
   sequence of its cells; a row of no cell is a blank line. *)

RequiredFields(loader) ==
    IF loader = "load_routers_from_csv"
    THEN <<"Name", "Lat", "Lon", "Type", "Priority", "Site ID">>
    ELSE <<"Name", "Lat", "Lon">>

\* row[field] of csv.DictReader: the cell under the field, None for a short row
Cell(fieldnames, row, field) ==
    LET k == CHOOSE j \in DOMAIN fieldnames : fieldnames[j] = field
    IN  IF k <= Len(row) THEN <<row[k]>> ELSE <<>>

\* int(cell): the digits of the model
IsInt(cell) == cell \in {"0", "1", "2", "5"}

\* the try of the row loop, field by field in the order of the statements:
\* .strip() and float() / int() on the cells; "append", "ValueError" (float or int
\* of a string that is no number), or the exception that a missing cell (None)
\* raises, AttributeError from .strip() and TypeError from float() / int()
RECURSIVE ReadRow(_, _, _, _)
ReadRow(loader, fieldnames, row, k) ==
    LET fields == RequiredFields(loader)
    IN  IF k > Len(fields) THEN "append"
        ELSE LET cell == Cell(fieldnames, row, fields[k])
             IN  IF fields[k] \in {"Lat", "Lon"}
                 THEN IF cell = <<>> THEN "TypeError"
                      ELSE IF ~IsFloat(cell[1]) THEN "ValueError"
                      ELSE ReadRow(loader, fieldnames, row, k + 1)
                 ELSE IF fields[k] = "Priority"
                 THEN IF cell = <<>> THEN "TypeError"
                      ELSE IF ~IsInt(cell[1]) THEN "ValueError"
                      ELSE ReadRow(loader, fieldnames, row, k + 1)
                 ELSE IF cell = <<>> THEN "AttributeError"
                      ELSE ReadRow(loader, fieldnames, row, k + 1)

\* the tuple appended for a row: (name, lon, lat) and, for a router, (type,
\* priority, site_id) after them
RowTuple(loader, fieldnames, row) ==
    LET name == Cell(fieldnames, row, "Name")[1]
        lat == FloatOf(Cell(fieldnames, row, "Lat")[1])
        lon == FloatOf(Cell(fieldnames, row, "Lon")[1])
    IN  IF loader = "load_routers_from_csv"
        THEN <<name, lon, lat, Cell(fieldnames, row, "Type")[1],
               FloatOf(Cell(fieldnames, row, "Priority")[1]),
               Cell(fieldnames, row, "Site ID")[1]>>
        ELSE <<name, lon, lat>>

\* the loop over the reader from the k-th row on: only ValueError is caught in the
\* loop; any other exception reaches except Exception, which returns None
RECURSIVE LoadLoop(_, _, _, _, _)
LoadLoop(loader, fieldnames, rows, k, list) ==
    IF k > Len(rows) THEN [tag |-> "list", val |-> list]
    ELSE IF rows[k] = <<>> THEN LoadLoop(loader, fieldnames, rows, k + 1, list)
    ELSE LET read == ReadRow(loader, fieldnames, rows[k], 1)
         IN  IF read = "append"
             THEN LoadLoop(loader, fieldnames, rows, k + 1,
                           Append(list, RowTuple(loader, fieldnames, rows[k])))
             ELSE IF read = "ValueError"
                  THEN LoadLoop(loader, fieldnames, rows, k + 1, list)
             ELSE None

\* load_routers_from_csv / load_targets_from_csv
LoadFromCsv(loader, file) ==
    IF file.tag = "FileNotFoundError" THEN None
    ELSE IF ~(Range(RequiredFields(loader)) \subseteq Range(file.fieldnames)) THEN None
    ELSE LoadLoop(loader, file.fieldnames, file.rows, 1, <<>>)

\* the rows of the model: the k-th row is named after its place; its cells are
\* numbers, no numbers or empty; it may stop short of the last column or be blank
CsvRows(loader, k) ==
    LET full == IF loader = "load_routers_from_csv"
                THEN {<<"N" \o ToString(k), lat, "1", "PE", priority, "S">> :
                         lat \in {"0", "abc"}, priority \in {"1", "x"}}
                ELSE {<<"N" \o ToString(k), lat, lon>> :
                         lat \in {"0", "abc", ""}, lon \in {"0", "1", "abc"}}
    IN  {SubSeq(r, 1, n) : r \in full, n \in 0..Len(RequiredFields(loader))}

CsvFiles(loader, n) ==
    {[tag |-> "csv", fieldnames |-> RequiredFields(loader), rows |-> rows] :
        rows \in {r \in [1..n -> UNION {CsvRows(loader, k) : k \in 1..n}] :
                    \A k \in 1..n : r[k] \in CsvRows(loader, k)}}
    \cup {[tag |-> "csv", fieldnames |-> <<"Name", "Lat">>, rows |-> <<>>],
          [tag |-> "FileNotFoundError"]}

CsvCalls(loader, n) == {[fn |-> loader, csv |-> f] : f \in CsvFiles(loader, n)}

CallLoadFromCsv ==
    /\ call_pc = "call" /\ call.fn \in {"load_routers_from_csv", "load_targets_from_csv"}
    /\ ret' = LoadFromCsv(call.fn, call.csv)
    /\ call_pc' = "returned"
    /\ UNCHANGED <<call, attempt, http_sent, http_response>>
    /\ UNCHANGED <<retry_delay, slept>>
    /\ UNCHANGED batch_vars

InitCsv ==
    \E loader \in {"load_routers_from_csv", "load_targets_from_csv"}, n \in 0..MaxRows :
        InitCall(CsvCalls(loader, n))

SpecCsv == InitCsv /\ [][CallLoadFromCsv]_vars

-----------------------------------------------------------------------------
(* route_kml_gen_final.py: get_ors_route (openrouteservice) *)

OrsCalls ==
    {[fn |-> "get_ors_route", start_coords |-> s, end_coords |-> e, max_retries |-> m] :
        s \in CallCoords, e \in CallCoords, m \in (0..MaxRetries) \cup {DefaultMaxRetries}}

TooManyRequests == 429
ServerError == 500

\* what one POST /v2/directions request can come back with: an HTTPError raised by
\* raise_for_status (429, another status, or no response attached), a Timeout,
\* another RequestException, another exception (a body that is no JSON), or a
\* body with no feature or with one feature (its geometry or none, its distance in
\* metres or missing)
OrsResponses(start_coords, end_coords) ==
    {[kind |-> "HTTPError", status |-> st] : st \in {TooManyRequests, ServerError, JsonNull}}
    \cup {[kind |-> "Timeout"], [kind |-> "RequestException"], [kind |-> "Exception"],
          [kind |-> "json", features |-> <<>>]}
    \cup {[kind |-> "json", features |-> <<[coordinates |-> c, distance |-> d]>>] :
            c \in {<<>>, <<start_coords, end_coords>>}, d \in Metres \cup {JsonNull}}

\* as GetOrsRouteAttempt, a timeout taken for a reason to try again
GetOrsRouteAttemptRetryTimeout(response) ==
    IF response.kind = "HTTPError"
    THEN IF response.status = TooManyRequests THEN [tag |-> "retry"]
         ELSE [tag |-> "return", val |-> NoneNone]
    ELSE IF response.kind = "Timeout" THEN [tag |-> "retry"]
    ELSE IF response.kind \in {"RequestException", "Exception"}
         THEN [tag |-> "return", val |-> NoneNone]
    ELSE IF response.features = <<>> THEN [tag |-> "return", val |-> NoneNone]
    ELSE IF response.features[1].coordinates = <<>> THEN [tag |-> "return", val |-> NoneNone]
    ELSE IF response.features[1].distance = JsonNull THEN [tag |-> "return", val |-> NoneNone]
    ELSE [tag |-> "return",
          val |-> [tag |-> "route", coords |-> response.features[1].coordinates,
                   distance_km |-> response.features[1].distance \div MetresPerKm]]

\* the try of get_ors_route for one response: return, or (429) sleep and go round
\* the loop again
GetOrsRouteAttempt(response) ==
    IF response.kind = "HTTPError"
    THEN IF response.status = TooManyRequests THEN [tag |-> "retry"]
         ELSE [tag |-> "return", val |-> NoneNone]
    ELSE IF response.kind \in {"Timeout", "RequestException", "Exception"}
         THEN [tag |-> "return", val |-> NoneNone]
    ELSE IF response.features = <<>> THEN [tag |-> "return", val |-> NoneNone]
    ELSE IF response.features[1].coordinates = <<>> THEN [tag |-> "return", val |-> NoneNone]
    ELSE IF response.features[1].distance = JsonNull THEN [tag |-> "return", val |-> NoneNone]
    ELSE [tag |-> "return",
          val |-> [tag |-> "route", coords |-> response.features[1].coordinates,
                   distance_km |-> response.features[1].distance \div MetresPerKm]]

\* get_ors_route up to the loop: identical coordinates return at once
CallGetOrsRoute ==
    /\ call_pc = "call" /\ call.fn = "get_ors_route"
    /\ IF call.start_coords = call.end_coords
       THEN ret' = NoneNone /\ call_pc' = "returned" /\ UNCHANGED retry_delay
       ELSE ret' = ret /\ call_pc' = "loop" /\ retry_delay' = 1
    /\ attempt' = 0
    /\ UNCHANGED <<call, http_sent, http_response, slept>>
    /\ UNCHANGED batch_vars

\* one pass of the loop of get_ors_route, or its end
AttemptGetOrsRoute ==
    /\ call_pc = "loop" /\ call.fn = "get_ors_route"
    /\ IF InRange(attempt, call.max_retries)
       THEN \E response \in OrsResponses(call.start_coords, call.end_coords) :
               LET did == GetOrsRouteAttempt(response)
               IN  /\ http_sent' = http_sent + 1
                   /\ http_response' = response
                   /\ IF did.tag = "retry"
                      THEN /\ slept' = Append(slept, retry_delay)
                           /\ retry_delay' = retry_delay * 2
                           /\ attempt' = attempt + 1
                           /\ UNCHANGED <<ret, call_pc>>
                      ELSE /\ ret' = did.val
                           /\ call_pc' = "returned"
                           /\ UNCHANGED <<attempt, retry_delay, slept>>
       ELSE /\ ret' = NoneNone
            /\ call_pc' = "returned"
            /\ UNCHANGED <<attempt, http_sent, http_response, retry_delay, slept>>
    /\ UNCHANGED call
    /\ UNCHANGED batch_vars

InitOrs == InitCall(OrsCalls)

NextOrs == CallGetOrsRoute \/ AttemptGetOrsRoute

SpecOrs == InitOrs /\ [][NextOrs]_vars

-----------------------------------------------------------------------------
(* Properties *)

SuccessRecords(results) == {k \in DOMAIN results : results[k].Status = "Success"}

\* C1: in unique-assignment mode no two 'Success' records of the returned result
\* carry the same Nearest_Router_Name (nor do two committed records at any time)
UniqueRouterPerRun ==
    unique =>
        /\ \A a, b \in SuccessRecords(final_results) :
              a # b => final_results[a].Nearest_Router_Name # final_results[b].Nearest_Router_Name
        /\ \A a, b \in SuccessRecords(all_results) :
              a # b => all_results[a].Nearest_Router_Name # all_results[b].Nearest_Router_Name

\* a run that resolved a conflict and returned two 'Success' records
TwoRoutersAssigned ==
    /\ unique /\ pc = "done" /\ iteration >= 2
    /\ Cardinality(SuccessRecords(all_results)) >= 2

\* C2: a router name in assigned_router_keys is in no later round's available list,
\* is nominated in no later round and is committed in none; assigned_router_keys
\* only grows
AssignedRouterNeverReconsidered ==
    /\ [](pc \in {"for", "commit"} =>
            /\ \A k \in DOMAIN available_routers :
                  available_routers[k][1] \notin assigned_router_keys
            /\ \A k \in DOMAIN round_results :
                  round_results[k].Status = "Success" =>
                      round_results[k].Router_Key \notin assigned_router_keys
            /\ \A k \in DOMAIN potential_assignments_map :
                  potential_assignments_map[k].Router_Key \notin assigned_router_keys)
    /\ [][assigned_router_keys \subseteq assigned_router_keys']_vars

\* a later round evaluating targets while a router is already assigned
LaterRoundWithAssignedRouter ==
    /\ pc = "commit" /\ iteration >= 2
    /\ assigned_router_keys # {}
    /\ potential_assignments_map # <<>>

\* the steps a run still has to take, at most: rounds times (targets + 4), plus
\* what is left of the current round
StepsLeft ==
    LET perRound == Len(target_stations_raw) + 4
    IN  CASE pc = "while" -> Len(unassigned_targets) * perRound + perRound - 1
          [] pc = "for" -> Len(unassigned_targets) * perRound + (Len(unassigned_targets) - i) + 2
          [] pc = "commit" -> Len(unassigned_targets) * perRound + 2
          [] pc = "simple" -> (Len(target_stations_raw) - i) + 1
          [] pc = "aggregate" -> 1
          [] OTHER -> 0

\* C3: the unique-assignment loop ends, whatever the engine answers: every step
\* lowers StepsLeft, which is never negative, and a run that has not returned or
\* raised can take a step; the loop is left with no target unassigned, or no router
\* available, or after a round without a commit (or by the exception of a null
\* distance)
LoopTerminates ==
    /\ [][StepsLeft' < StepsLeft]_vars
    /\ [](StepsLeft >= 0)
    /\ [](pc \notin {"done", "crashed"} => ENABLED Next)
    /\ [](unique /\ pc = "aggregate" =>
            \/ unassigned_targets = <<>>
            \/ available_routers = <<>>
            \/ NewlyAssignedKeys(potential_assignments_map) = {})

\* a run that ended after a round in which no target was committed
EndedByNoProgress ==
    /\ unique /\ pc = "done" /\ iteration >= 2
    /\ unassigned_targets # <<>>
    /\ available_routers # <<>>

\* C4 as stated: the round counter never exceeds min(#targets, #routers)
IterationWithinMin ==
    iteration <= Min(Len(target_stations_raw), Len(routers_list_full))

\* C4: the round counter never exceeds min(#targets, #routers + 1), and a round
\* that evaluates targets has a number of at most min(#targets, #routers)
IterationBound ==
    /\ iteration <= Min(Len(target_stations_raw), Len(routers_list_full) + 1)
    /\ pc \in {"for", "commit"} =>
          iteration <= Min(Len(target_stations_raw), Len(routers_list_full))

\* a run whose last round only found that every router was assigned
ExtraRoundOnExhaustion ==
    /\ unique /\ pc = "done"
    /\ iteration = Len(routers_list_full) + 1
    /\ unassigned_targets # <<>>

\* the targets of the round that nominated router_key, by position in the round
Nominators(router_key) ==
    {k \in DOMAIN round_results :
        round_results[k].Status = "Success" /\ round_results[k].Router_Key = router_key}

\* the nominator the round keeps: the first of those at the smallest distance
Winner(router_key) ==
    CHOOSE k \in Nominators(router_key) :
        \A j \in Nominators(router_key) :
            \/ round_results[k].Distance < round_results[j].Distance
            \/ round_results[k].Distance = round_results[j].Distance /\ k <= j

\* C5: in every round, the target kept for a nominated router is at a distance less
\* than or equal to that of every target that nominated the router, and every other
\* nominating target (another name or place than the kept one) is in the unassigned
\* list of the next round
ClosestNominatorWins ==
    [][pc = "commit" =>
          \A m \in DOMAIN potential_assignments_map :
              LET kept == potential_assignments_map[m]
              IN  \A k \in Nominators(kept.Router_Key) :
                      /\ kept.Distance <= round_results[k].Distance
                      /\ unassigned_targets[k] # unassigned_targets[Winner(kept.Router_Key)] =>
                             unassigned_targets[k] \in Range(unassigned_targets')]_vars

\* a result record stands for a target: same name and coordinates
RecordOf(rec, target) ==
    rec.BS_Name = target[1] /\ rec.BS_Lon = target[2] /\ rec.BS_Lat = target[3]

\* C6: run_conflict_resolution_assignment returns one record per input target,
\* 'Success' or 'Not Assigned after Loop', none dropped
OneRecordPerTarget ==
    (unique /\ pc = "done") =>
        /\ Len(all_results) = Len(target_stations_raw)
        /\ \A k \in DOMAIN target_stations_raw :
              \E j \in DOMAIN all_results :
                  /\ RecordOf(all_results[j], target_stations_raw[k])
                  /\ all_results[j].Status \in {"Success", "Not Assigned after Loop"}

\* the road distance in km the consistent engine holds for a target and a router
RoadKnown(target, router) ==
    <<<<target[2], target[3]>>, <<router[2], router[3]>>>> \in DOMAIN road

RoadKm(target, router) ==
    road[<<<<target[2], target[3]>>, <<router[2], router[3]>>>>] \div MetresPerKm

InRadius(target) ==
    Range(FilterRoutersByRadius(target[3], target[2], routers_list_full, ArgsRadius))

StrictlyNearest(target, router, candidates) ==
    /\ router \in candidates
    /\ \A o \in candidates : o # router => RoadKm(target, router) < RoadKm(target, o)

\* the case of C7: two targets t1, t2, both nearest to r, t1 closer, and r2 the
\* nearest to t2 of the routers not named like r
ContestedRouter(t1, t2, r, r2) ==
    /\ Len(target_stations_raw) = 2
    /\ Range(target_stations_raw) = {t1, t2}
    /\ t1[1] # t2[1]
    /\ r[1] # "" /\ r2[1] # "" /\ r[1] # r2[1]
    /\ \A o \in InRadius(t1) : RoadKnown(t1, o)
    /\ \A o \in InRadius(t2) : RoadKnown(t2, o)
    /\ StrictlyNearest(t1, r, InRadius(t1))
    /\ StrictlyNearest(t2, r, InRadius(t2))
    /\ RoadKm(t1, r) < RoadKm(t2, r)
    /\ StrictlyNearest(t2, r2, {o \in InRadius(t2) : o[1] # r[1]})

AssignedTo(target, router) ==
    \E j \in DOMAIN all_results :
        /\ RecordOf(all_results[j], target)
        /\ all_results[j].Status = "Success"
        /\ all_results[j].Nearest_Router_Name = router[1]
        /\ all_results[j].Nearest_Router_Lon = router[2]
        /\ all_results[j].Route_Distance_KM = RoadKm(target, router)

\* C7: with t1 and t2 both nearest to r, t1 strictly closer, and r2 second-nearest
\* to t2, the run returns t1 assigned to r and t2 assigned to r2
LoserGetsSecondNearest ==
    (unique /\ pc = "done") =>
        \A t1, t2 \in Range(target_stations_raw) : \A r, r2 \in Range(routers_list_full) :
            ContestedRouter(t1, t2, r, r2) => AssignedTo(t1, r) /\ AssignedTo(t2, r2)

\* a finished run of that case
ContestedRouterRun ==
    /\ unique /\ pc = "done" /\ iteration = 2
    /\ \E t1, t2 \in Range(target_stations_raw) : \E r, r2 \in Range(routers_list_full) :
          ContestedRouter(t1, t2, r, r2)

\* the records the commit loop stored for a target
CommitsOf(target) == {c \in committed : RecordOf(c, target)}

\* C8: when the loop has ended, every target never committed is in the result as
\* 'Not Assigned after Loop' with router and distance 'N/A', and every target
\* committed is in it as 'Success' with the router and distance of its commit
EveryTargetReported ==
    (unique /\ pc = "done") =>
        \A k \in DOMAIN target_stations_raw :
            LET target == target_stations_raw[k]
            IN  IF CommitsOf(target) = {}
                THEN NotAssignedResult(target) \in Range(all_results)
                ELSE \A c \in CommitsOf(target) : StripTemp(c) \in Range(all_results)

\* C9: a target with a committed record is not evaluated again, and no later step
\* replaces or changes the record
CommittedTargetIsFinal ==
    /\ [](unique => \A k \in DOMAIN unassigned_targets :
                       \A j \in DOMAIN final_results :
                           unassigned_targets[k][1] # final_results[j].BS_Name)
    /\ [][\A j \in DOMAIN final_results :
             /\ j \in DOMAIN final_results'
             /\ StripTemp(final_results'[j]) = StripTemp(final_results[j])]_vars

\* a second round has committed a record beside the record of the first round
CommitsInTwoRounds ==
    /\ pc = "while" /\ iteration >= 2
    /\ Len(final_results) >= 2

\* C10: in simple mode a target with no router in the radius gets the record
\* 'No router in radius' with distance 'N/A', without a request to the engine, and
\* the loop goes on; the records are those of the targets so far, in input order
NoRouterInRadiusRecorded ==
    /\ [](~unique =>
            /\ Len(all_results) = i
            /\ pc = "done" => i = Len(target_stations_raw)
            /\ \A k \in DOMAIN all_results : RecordOf(all_results[k], target_stations_raw[k]))
    /\ [][(pc = "simple"
             /\ FilterRoutersByRadius(target_stations_raw[i + 1][3], target_stations_raw[i + 1][2],
                                      routers_list_full, ArgsRadius) = <<>>) =>
            /\ requests_sent' = requests_sent
            /\ Len(all_results') = i + 1
            /\ all_results'[i + 1].Status = "No router in radius"
            /\ all_results'[i + 1].Route_Distance_KM = NaNum
            /\ all_results'[i + 1].Nearest_Router_Name = NA
            /\ i' = i + 1
            /\ pc' = IF i' = Len(target_stations_raw) THEN "done" ELSE "simple"]_vars

\* a simple run that recorded a target without router and went on to assign the next
SimpleRunPastNoRouter ==
    /\ ~unique /\ pc = "done" /\ Len(all_results) = 2
    /\ all_results[1].Status = "No router in radius"
    /\ all_results[2].Status = "Success"
    /\ requests_sent = 1

\* the step just taken sent the matrix request of a target and
\* get_route_distances_table returned None
MatrixCallFailed ==
    /\ requests_sent' = requests_sent + 1
    /\ GetRouteDistancesTable(osrm_response') = None

FailedRecordOf(rec, target) ==
    /\ RecordOf(rec, target)
    /\ rec.Status = "OSRM Route Failed"
    /\ rec.Route_Distance_KM = NaNum
    /\ rec.Nearest_Router_Name = NA

\* C11: when the matrix call of a target returns None (network error, HTTP error,
\* code not 'Ok', no row), the record made for that target has Status 'OSRM Route
\* Failed' and distance 'N/A', the loop goes on to the next target, and no record
\* of another target changes: in simple mode the records written so far stay as
\* they are, in unique mode the round's nominations and the committed records do
OsrmRouteFailedRecorded ==
    [][MatrixCallFailed =>
          /\ pc' # "crashed"
          /\ i' = i + 1
          /\ ~unique =>
                /\ all_results' = Append(all_results, all_results'[i'])
                /\ FailedRecordOf(all_results'[i'], target_stations_raw[i'])
                /\ pc' = IF i' = Len(target_stations_raw) THEN "done" ELSE "simple"
          /\ unique =>
                /\ round_results' = Append(round_results, round_results'[i'])
                /\ FailedRecordOf(round_results'[i'], unassigned_targets[i'])
                /\ potential_assignments_map' = potential_assignments_map
                /\ final_results' = final_results
                /\ pc' = IF i' = Len(unassigned_targets) THEN "commit" ELSE "for"]_vars

\* a simple run whose first target met a network error and which is going on to
\* the second target
NetworkErrorThenNextTarget ==
    /\ ~unique /\ pc = "simple" /\ i = 1
    /\ osrm_response.kind = "RequestException"
    /\ all_results[1].Status = "OSRM Route Failed"

\* the step just taken sent the matrix request of a target and the engine answered
\* code 'Ok' with a row of nulls
NoFiniteDistanceRow ==
    /\ requests_sent' = requests_sent + 1
    /\ osrm_response'.kind = "json" /\ osrm_response'.code = "Ok"
    /\ osrm_response'.distances # <<>>
    /\ \A k \in DOMAIN osrm_response'.distances : osrm_response'.distances[k] = JsonNull

\* C12: when the engine answers code 'Ok' with a row that holds no finite distance,
\* the target is marked failed with distance 'N/A' and the loop goes on; no
\* exception leaves find_best_router_for_target at any time
NullRowMarkedFailed ==
    /\ [][NoFiniteDistanceRow =>
              /\ pc' # "crashed"
              /\ i' = i + 1
              /\ ~unique => FailedRecordOf(all_results'[i'], target_stations_raw[i'])
              /\ unique => FailedRecordOf(round_results'[i'], unassigned_targets[i'])]_vars
    /\ [](pc # "crashed")

\* the step just taken sent the matrix request of a target and the engine answered
\* a row of distances, none of them null
DistanceRowAnswered ==
    /\ requests_sent' = requests_sent + 1
    /\ GetRouteDistancesTable(osrm_response').tag = "list"

\* the router list find_nearest_router_by_osrm_route_table is called with for the
\* target about to be evaluated
RoutersPassedIn ==
    IF unique
    THEN FilterRoutersByRadius(unassigned_targets[i + 1][3], unassigned_targets[i + 1][2],
                               available_routers, ArgsRadius)
    ELSE FilterRoutersByRadius(target_stations_raw[i + 1][3], target_stations_raw[i + 1][2],
                               routers_list_full, ArgsRadius)

\* the first position of the smallest entry of a row
FirstMinimum(row) ==
    CHOOSE k \in DOMAIN row :
        \A j \in DOMAIN row : row[k] < row[j] \/ (row[k] = row[j] /\ k <= j)

\* C19: the i-th distance of the row belongs to the i-th router of the list passed
\* in; the router returned is the one at the position of the smallest distance,
\* with that distance in km, and of several routers at the smallest distance the
\* one earliest in the list
NearestRouterReturned ==
    [][DistanceRowAnswered =>
          LET row == osrm_response'.distances
              k == FirstMinimum(row)
              rec == IF unique THEN round_results'[i'] ELSE all_results'[i']
          IN  /\ Len(row) = Len(RoutersPassedIn)
              /\ rec.Status = "Success"
              /\ rec.Nearest_Router_Name = RoutersPassedIn[k][1]
              /\ rec.Nearest_Router_Lon = RoutersPassedIn[k][2]
              /\ rec.Nearest_Router_Lat = RoutersPassedIn[k][3]
              /\ rec.Router_Type = RoutersPassedIn[k][4]
              /\ rec.Router_Priority = RoutersPassedIn[k][5]
              /\ rec.Router_Site_ID = RoutersPassedIn[k][6]
              /\ rec.Route_Distance_KM * MetresPerKm = row[k]
              /\ \A j \in DOMAIN row : rec.Route_Distance_KM * MetresPerKm <= row[j]]_vars

\* a target with two routers at the same road distance, recorded with the first
EarlierOfEqualRoutersWins ==
    /\ ~unique /\ i >= 1
    /\ osrm_response.kind = "json" /\ osrm_response.code = "Ok"
    /\ Len(osrm_response.distances) = 2
    /\ osrm_response.distances[1] = osrm_response.distances[2]
    /\ osrm_response.distances[1] # JsonNull
    /\ all_results[i].Status = "Success"
    /\ all_results[i].Router_Site_ID = routers_list_full[1][6]

IsOsrmRoute == call.fn = "get_osrm_route"

\* C13: a call of get_osrm_route sends at most max_retries requests and never
\* raises; a request after the first is sent only when the one before raised a
\* network/HTTP exception; an attempt that does not raise ends the call, a complete
\* answer with the route and its km; after the return no request is sent; and a
\* call whose max_retries attempts all raised returns (None, None)
RetryBudgetKept ==
    /\ [](IsOsrmRoute => http_sent <= call.max_retries /\ call_pc # "raised")
    /\ [][(IsOsrmRoute /\ http_sent' = http_sent + 1 /\ http_sent >= 1) =>
              http_response.kind = "RequestException"]_vars
    /\ [][(IsOsrmRoute /\ http_sent' = http_sent + 1
                /\ http_response'.kind # "RequestException") =>
              /\ call_pc' = "returned"
              /\ (GetOsrmRouteAttempt(http_response').val.tag = "route" =>
                     /\ ret'.tag = "route"
                     /\ ret'.coords = http_response'.routes[1].coordinates
                     /\ ret'.distance_km * MetresPerKm = http_response'.routes[1].distance)]_vars
    /\ [][(IsOsrmRoute /\ call_pc = "returned") => http_sent' = http_sent]_vars
    /\ []((IsOsrmRoute /\ call_pc = "returned") => ~ENABLED NextClient)
    /\ []((IsOsrmRoute /\ call_pc = "returned" /\ http_sent = call.max_retries
               /\ (http_sent >= 1 => http_response.kind = "RequestException")) =>
              ret = NoneNone)

\* a call with the default budget whose five attempts all raised
RetriesExhausted ==
    /\ IsOsrmRoute /\ call_pc = "returned"
    /\ call.max_retries = DefaultMaxRetries
    /\ http_sent = DefaultMaxRetries
    /\ http_response.kind = "RequestException"
    /\ ret = NoneNone

\* C14 as stated: get_route_distances_table reports the failure of the matrix
\* request only after the default five attempts
MatrixCallRetried ==
    (call.fn = "get_route_distances_table" /\ call_pc = "returned"
         /\ http_response.kind = "RequestException") =>
        http_sent = DefaultMaxRetries

\* C15: in get_osrm_route and get_route_distances_table a response whose code is
\* not 'Ok' ends the call at once with (None, None) / None, whatever is left of the
\* retry budget, and no request follows
NotOkNeverRetried ==
    /\ [][(call.fn \in {"get_osrm_route", "get_route_distances_table"}
                /\ http_sent' = http_sent + 1
                /\ http_response'.kind = "json" /\ http_response'.code # "Ok") =>
              /\ call_pc' = "returned"
              /\ ret' = IF IsOsrmRoute THEN NoneNone ELSE None]_vars
    /\ [](call_pc = "returned" => ~ENABLED NextClient)

\* get_osrm_route returned on a code that is not 'Ok' after two failed attempts,
\* with attempts left
NotOkWithBudgetLeft ==
    /\ IsOsrmRoute /\ call_pc = "returned"
    /\ http_response.kind = "json" /\ http_response.code # "Ok"
    /\ http_sent = 3 /\ call.max_retries = DefaultMaxRetries
    /\ ret = NoneNone

\* C16: a point-to-point call with identical start and end coordinates sends no
\* request and returns no distance, in get_osrm_route and in get_route_distance
IdenticalCoordsShortCircuit ==
    (call.fn \in {"get_osrm_route", "get_route_distance"}
         /\ call.start_coords = call.end_coords) =>
        /\ http_sent = 0
        /\ call_pc = "returned" => ret \in {None, NoneNone}

\* the Haversine distance in metres from the target of the call to its k-th router
RouterDistance(k) ==
    Haversine(call.target_lat, call.target_lon, call.routers_list[k][3], call.routers_list[k][2])

\* the positions of the routers within the radius as given
WithinRadius == {k \in DOMAIN call.routers_list : RouterDistance(k) <= call.radius_km}

\* the j-th smallest member of a set of positions
NthOf(S, j) == CHOOSE k \in S : Cardinality({m \in S : m < k}) = j - 1

\* C17: filter_routers_by_radius returns the routers of the list whose Haversine
\* distance to the target is less than or equal to the radius, one at exactly the
\* radius included, in the order of the list and each as it was given; the list
\* passed in is not changed; the call returns a list (empty when no router
\* qualifies) and never raises
FilterIsInclusiveAndPure ==
    /\ [](call_pc # "raised")
    /\ [](call_pc = "returned" =>
            /\ ret.tag = "list"
            /\ Len(ret.val) = Cardinality(WithinRadius)
            /\ \A j \in DOMAIN ret.val : ret.val[j] = call.routers_list[NthOf(WithinRadius, j)])
    /\ [][call' = call]_vars

\* a call that kept a router at exactly the radius, behind a router it left out
RouterAtExactlyRadiusKept ==
    /\ call_pc = "returned" /\ call.fn = "filter_routers_by_radius"
    /\ call.radius_km > 0
    /\ Len(call.routers_list) = 2 /\ Len(ret.val) = 1
    /\ RouterDistance(1) > call.radius_km
    /\ RouterDistance(2) = call.radius_km
    /\ ret.val[1] = call.routers_list[2]

\* C18 as stated: the radius is in kilometres, so a router at d metres is kept if
\* and only if d <= 1000 * radius_km
KeptIffWithinKm ==
    call_pc = "returned" =>
        \A k \in DOMAIN call.routers_list :
            (call.routers_list[k] \in Range(ret.val))
                <=> (RouterDistance(k) <= MetresPerKm * call.radius_km)

\* the position in the document of the route a record was made from
RouteOf(rec) == CHOOSE k \in DOMAIN call.routes : call.routes[k][1] = rec.full_name

\* the routes find_nearest_routes evaluates: at least 2 coordinates, and in
\* libs/geospatial_tools.py a distance that is not infinite
Evaluated ==
    {k \in DOMAIN call.routes :
        /\ Len(call.routes[k][2]) >= MinLineCoords
        /\ call.file = "libs/geospatial_tools.py" => ~Degenerate(call.routes[k][2])}

VertexDistance(lon, coords) ==
    CHOOSE d \in {Haversine(0, lon, coords[k][2], coords[k][1]) : k \in DOMAIN coords} :
        \A k \in DOMAIN coords : d <= Haversine(0, lon, coords[k][2], coords[k][1])

\* the sum of the two points' distances to the k-th route of the call
PairTotal(k) ==
    VertexDistance(call.lon1, call.routes[k][2]) + VertexDistance(call.lon2, call.routes[k][2])

RoutesWithCoords == {k \in DOMAIN call.routes : call.routes[k][2] # <<>>}

IsVertexAt(lon, lat, coords, origin, dist) ==
    \E k \in DOMAIN coords :
        coords[k] = <<lon, lat>> /\ Haversine(0, origin, lat, lon) = dist

\* C21: find_best_route_for_pair returns the route whose dist1 + dist2 is least
\* among the routes with coordinates, with the two distances and the two nearest
\* vertices of that route; of routes with the same sum the first in the list is
\* returned; with no route (or none with coordinates) it returns None
BestRouteForPairReturned ==
    (call.fn = "find_best_route_for_pair" /\ call_pc # "call") =>
        /\ call_pc = "returned"
        /\ IF RoutesWithCoords = {} THEN ret = None
           ELSE \E k \in RoutesWithCoords :
                   /\ \A j \in RoutesWithCoords :
                          /\ PairTotal(k) <= PairTotal(j)
                          /\ j < k => PairTotal(k) < PairTotal(j)
                   /\ ret.tag = "dict"
                   /\ ret.full_name = call.routes[k][1]
                   /\ ret.total_distance = PairTotal(k)
                   /\ ret.dist1 = VertexDistance(call.lon1, call.routes[k][2])
                   /\ ret.dist2 = VertexDistance(call.lon2, call.routes[k][2])
                   /\ IsVertexAt(ret.nearest_lon1, ret.nearest_lat1, call.routes[k][2],
                                 call.lon1, ret.dist1)
                   /\ IsVertexAt(ret.nearest_lon2, ret.nearest_lat2, call.routes[k][2],
                                 call.lon2, ret.dist2)

\* two routes at the same least sum, different in their vertices, the first returned
FirstOfEqualRoutesReturned ==
    /\ call.fn = "find_best_route_for_pair" /\ call_pc = "returned"
    /\ ret # None
    /\ \E k, j \in RoutesWithCoords :
          /\ k < j
          /\ PairTotal(k) = PairTotal(j)
          /\ call.routes[k][2] # call.routes[j][2]
          /\ ret.full_name = call.routes[k][1]
          /\ ret.dist1 # ret.dist2

\* C22: for every coordinate list of length >= 1, compute_nearest_point, by
\* projection (libs/geospatial_tools.py) and by nearest vertex (two-point scripts),
\* returns a distance different from +infinity
FiniteDistanceWhenNonEmpty ==
    (call.fn = "compute_nearest_point" /\ call_pc = "returned" /\ Len(call.coords) >= 1) =>
        ret.dist # Inf

WellFormed(token) == Len(token) >= 2 /\ IsFloat(token[1]) /\ IsFloat(token[2])

\* the well-formed tokens of a coordinate string, in order, as (lon, lat)
RECURSIVE WellFormedCoords(_)
WellFormedCoords(tokens) ==
    IF tokens = <<>> THEN <<>>
    ELSE IF WellFormed(Head(tokens))
         THEN <<<<FloatOf(Head(tokens)[1]), FloatOf(Head(tokens)[2])>>>>
              \o WellFormedCoords(Tail(tokens))
    ELSE WellFormedCoords(Tail(tokens))

\* C25: in every variant of parse_coords_text a token of fewer than two fields, or
\* whose first or second field is no number, is dropped, the well-formed tokens of
\* the string are kept in order, and no exception is raised
MalformedTokensSkipped ==
    (call.fn = "parse_coords_text" /\ call_pc # "call") =>
        /\ call_pc = "returned"
        /\ ret = [tag |-> "list", val |-> WellFormedCoords(call.coords_text)]

\* the placemarks under a sequence of nodes, each with the names of the containers
\* walked to reach it ("Unnamed" for a container without a name) and its own name
RECURSIVE PlacemarksUnder(_, _)
PlacemarksUnder(nodes, path) ==
    UNION {IF nodes[k].tag \in {"Folder", "Document"}
           THEN PlacemarksUnder(nodes[k].children, Append(path, ContainerName(nodes[k])))
           ELSE IF nodes[k].tag = "Placemark"
                THEN {<<Append(path, PlacemarkName(nodes[k])), nodes[k]>>}
           ELSE {} : k \in DOMAIN nodes}

\* the coordinates a geometry holds: the well-formed tokens of its LineStrings
LineCoords(geom) ==
    IF geom.tag = "LineString" /\ geom.coordinates # <<>>
    THEN WellFormedCoords(geom.coordinates[1])
    ELSE <<>>

RECURSIVE ConcatLineCoords(_)
ConcatLineCoords(geoms) ==
    IF geoms = <<>> THEN <<>>
    ELSE LineCoords(Head(geoms)) \o ConcatLineCoords(Tail(geoms))

ExpectedCoords(placemark) ==
    IF placemark.geometry.tag = "MultiGeometry"
    THEN ConcatLineCoords(placemark.geometry.children)
    ELSE LineCoords(placemark.geometry)

ExtractReturned == call.fn = "extract_routes_from_kml" /\ call_pc = "returned"

\* the Document of the file holds Folder "A" holding Placemark "B", a LineString of
\* 3 points
FolderAPlacemarkB ==
    /\ call.kml.tag = "kml"
    /\ \E dn \in {<<>>, <<"Doc">>} :
          call.kml = Kml(<<Document(dn, <<Folder(<<"A">>,
                              <<Placemark(<<"B">>, LineStringOf(ThreePoints))>>)>>)>>)

\* every route is named by the path of a placemark that holds coordinates
FullNamesArePaths ==
    (ExtractReturned /\ call.kml.tag = "kml") =>
        {ret.val[k][1] : k \in DOMAIN ret.val}
            = {p[1] : p \in {q \in PlacemarksUnder(call.kml.children, <<>>) :
                                ExpectedCoords(q[2]) # <<>>}}

\* C23 as stated: Document > Folder "A" > Placemark "B" with one LineString of 3
\* points yields exactly one route, of full_name "A/B" and 3 coordinates; full_name
\* is the path of the names of the containers walked, then the placemark's name
ExampleNamedAB ==
    /\ (ExtractReturned /\ FolderAPlacemarkB) =>
          /\ Len(ret.val) = 1
          /\ ret.val[1][1] = <<"A", "B">>
          /\ Len(ret.val[1][2]) = 3
    /\ FullNamesArePaths

\* C23, amended: the Document is a container of the path as well: the one route is
\* named "<name of the Document>/A/B", "Unnamed/A/B" when the Document has no name
ExampleNamedUnderDocument ==
    /\ (ExtractReturned /\ FolderAPlacemarkB) =>
          /\ Len(ret.val) = 1
          /\ ret.val[1][1] = <<ContainerName(call.kml.children[1]), "A", "B">>
          /\ Len(ret.val[1][2]) = 3
    /\ FullNamesArePaths

ExampleExtracted ==
    /\ ExtractReturned /\ FolderAPlacemarkB
    /\ call.kml.children[1].name = <<>>
    /\ ret.val = <<<<<<"Unnamed", "A", "B">>, <<<<1, 0>>, <<2, 0>>, <<0, 0>>>>>>>>

\* the placemarks under a sequence of nodes, depth first in document order
RECURSIVE DepthFirst(_)
DepthFirst(nodes) ==
    IF nodes = <<>> THEN <<>>
    ELSE (IF Head(nodes).tag \in {"Folder", "Document"} THEN DepthFirst(Head(nodes).children)
          ELSE IF Head(nodes).tag = "Placemark" THEN <<Head(nodes)>>
          ELSE <<>>) \o DepthFirst(Tail(nodes))

HoldsCoords(placemark) == ExpectedCoords(placemark) # <<>>

\* C24: a Placemark whose MultiGeometry holds LineStrings yields one route, its
\* coordinates those of the LineStrings one after the other in document order; the
\* routes are in the order a depth-first walk of the document meets the placemarks
MultiGeometryMergedInOrder ==
    (ExtractReturned /\ call.kml.tag = "kml") =>
        LET placemarks == SelectSeq(DepthFirst(call.kml.children), HoldsCoords)
        IN  /\ Len(ret.val) = Len(placemarks)
            /\ \A k \in DOMAIN ret.val :
                  /\ ret.val[k][2] = ExpectedCoords(placemarks[k])
                  /\ ret.val[k][1][Len(ret.val[k][1])] = PlacemarkName(placemarks[k])

\* a MultiGeometry of 2 LineStrings of 2 points between two other routes
TwoLineStringsMerged ==
    /\ ExtractReturned /\ call.kml.tag = "kml"
    /\ Len(ret.val) = 3
    /\ ret.val[1][1] = <<"Doc", "P1">>
    /\ ret.val[2][1] = <<"Doc", "A", "B">>
    /\ ret.val[3][1] = <<"Doc", "P3">>
    /\ call.kml.children[1].children[2].children[1].geometry
           = [tag |-> "MultiGeometry",
              children |-> <<LineStringOf(TwoPoints), LineStringOf(TwoOtherPoints)>>]
    /\ ret.val[2][2] = <<<<0, 0>>, <<1, 0>>, <<2, 0>>, <<1, 0>>>>

\* C26: when the KML file cannot be opened or parsed, extract_routes_from_kml
\* returns an empty list and find_nearest_routes returns an empty list, neither
\* raising
UnreadableKmlIsNoData ==
    (call.fn \in {"extract_routes_from_kml", "find_nearest_routes"} /\ call_pc # "call"
     /\ "kml" \in DOMAIN call /\ call.kml.tag \in {"unreadable", "unparsable"}) =>
        /\ call_pc = "returned"
        /\ ret = [tag |-> "list", val |-> <<>>]

NearestRoutesOfUnparsableKml ==
    /\ call.fn = "find_nearest_routes" /\ call_pc = "returned"
    /\ call.kml.tag = "unparsable"
    /\ ret.val = <<>>

\* a row with every required cell, its Lat and Lon numbers and its Priority an
\* integer
WellFormedRow(loader, row) ==
    /\ Len(row) >= Len(RequiredFields(loader))
    /\ \A k \in DOMAIN RequiredFields(loader) :
          /\ RequiredFields(loader)[k] \in {"Lat", "Lon"} => IsFloat(row[k])
          /\ RequiredFields(loader)[k] = "Priority" => IsInt(row[k])

RECURSIVE WellFormedRows(_, _, _)
WellFormedRows(loader, fieldnames, rows) ==
    IF rows = <<>> THEN <<>>
    ELSE IF WellFormedRow(loader, Head(rows))
         THEN <<RowTuple(loader, fieldnames, Head(rows))>>
              \o WellFormedRows(loader, fieldnames, Tail(rows))
    ELSE WellFormedRows(loader, fieldnames, Tail(rows))

\* C27: for a CSV with a valid header the loaders return the well-formed rows in
\* file order, whatever the defect of the other rows (a value that is no number, an
\* empty value, a short row); a bad row never makes the loader return None
BadRowsSkipped ==
    (call.fn \in {"load_routers_from_csv", "load_targets_from_csv"}
     /\ call_pc = "returned" /\ call.csv.tag = "csv"
     /\ call.csv.fieldnames = RequiredFields(call.fn)) =>
        /\ ret # None
        /\ ret = [tag |-> "list",
                  val |-> WellFormedRows(call.fn, call.csv.fieldnames, call.csv.rows)]

\* C28: in a round every target is evaluated against the list of available routers
\* computed at the start of the round; while the targets of the round are evaluated
\* the list, assigned_router_keys and final_results stay as they are, and the commit
\* step runs when every target of the round has been evaluated
RoundFrameKept ==
    /\ [](pc = "for" =>
            available_routers = AvailableRouters(routers_list_full, assigned_router_keys))
    /\ [](pc = "commit" => Len(round_results) = Len(unassigned_targets))
    /\ [][pc = "for" => /\ available_routers' = available_routers
                        /\ assigned_router_keys' = assigned_router_keys
                        /\ final_results' = final_results]_vars
    /\ [][(pc \in {"while", "for", "commit"} /\ pc' # "done"
           /\ (assigned_router_keys' # assigned_router_keys
               \/ final_results' # final_results)) => pc = "commit"]_vars

\* two targets of one round evaluated, each nominating a router, nothing committed
TwoNominationsBeforeCommit ==
    /\ pc = "commit" /\ iteration = 1
    /\ Len(round_results) = 2 /\ Len(potential_assignments_map) = 2
    /\ assigned_router_keys = {} /\ final_results = <<>>

\* step 3 of a round over a list of results, from the k-th on
RECURSIVE NominateAll(_, _, _)
NominateAll(results, k, map) ==
    IF k > Len(results) THEN map
    ELSE NominateAll(results, k + 1, Nominate(map, results[k]))

\* the router each target is assigned by a round's nominations
AssignmentsOf(map) == {<<map[k].BS_Name, map[k].Router_Key>> : k \in DOMAIN map}

\* C29: the routers assigned are a function of the targets, the routers and the
\* engine's answers: whichever order the set targets_processed_in_loop was iterated
\* in to build the list of a round, the round assigns the same router to the same
\* target, also when two targets nominate one router at the same distance
AssignmentIndependentOfSetOrder ==
    (pc = "commit" /\ iteration >= 2) =>
        \A order \in Orderings(DOMAIN round_results) :
            AssignmentsOf(NominateAll([k \in DOMAIN round_results |->
                                          round_results[order[k]]], 1, <<>>))
                = AssignmentsOf(potential_assignments_map)

IsOrsRoute == call.fn = "get_ors_route"

Is429(response) == response.kind = "HTTPError" /\ response.status = TooManyRequests

\* an HTTP error other than 429, a timeout or another exception
IsOrsFailure(response) ==
    response.kind \in {"HTTPError", "Timeout", "RequestException", "Exception"}
    /\ ~Is429(response)

\* C30: get_ors_route sends at most max_retries requests, sends another only after
\* a 429, having slept 1 second after the first 429 and twice the last delay after
\* each later one; any other HTTP error, a timeout or another exception ends the
\* call at once with (None, None), and so does a 429 on the last attempt
OrsRetriesOnlyOn429 ==
    /\ [](IsOrsRoute =>
            /\ http_sent <= call.max_retries
            /\ Len(slept) = attempt
            /\ \A k \in DOMAIN slept :
                  slept[k] = IF k = 1 THEN 1 ELSE 2 * slept[k - 1]
            /\ (call_pc = "loop" /\ http_sent >= 1) =>
                  Is429(http_response) /\ http_sent = attempt
            /\ (call_pc = "returned" /\ http_sent >= 1 /\ IsOrsFailure(http_response)) =>
                  ret = NoneNone /\ http_sent = attempt + 1
            /\ (call_pc = "returned" /\ http_sent >= 1 /\ Is429(http_response)) =>
                  ret = NoneNone /\ http_sent = call.max_retries)
    /\ [][(IsOrsRoute /\ http_sent' = http_sent + 1 /\ http_sent >= 1) =>
              (Is429(http_response) /\ Len(slept) = http_sent)]_vars
    /\ [][(IsOrsRoute /\ http_sent' = http_sent + 1 /\ IsOrsFailure(http_response')) =>
              (call_pc' = "returned" /\ ret' = NoneNone)]_vars

\* every attempt of a call answered 429, the call over
OrsExhaustedOn429 ==
    /\ IsOrsRoute /\ call_pc = "returned"
    /\ call.max_retries = MaxRetries
    /\ http_sent = MaxRetries
    /\ Is429(http_response)
    /\ Len(slept) >= 2 /\ slept[2] = 2
    /\ ret = NoneNone

=============================================================================
